---- MODULE Spec2Model ----
(***************************************************************************)
(* Model of the reaction-driven counter aggregation of the boards plugins: *)
(* the karma write-coalescing cache (karma/module.py) and the starboard    *)
(* repost / karma-proxy state machine (starboard/module.py).               *)
(*                                                                         *)
(* The plugin runs on one asyncio event loop.  A handler is split into     *)
(* steps at its suspension points (await of a platform call); the store    *)
(* writes of the cache flush are steps of their own, in statement order,   *)
(* so that every schedule of the event loop is a behaviour of the model.   *)
(***************************************************************************)
EXTENDS Integers, Sequences, FiniteSets, TLC

\* ------------------------------------------------------------------ bounds
MaxCalls == 2          \* reaction_added / reaction_removed calls in a run
MaxFlushes == 2        \* runs of _karma_cache_save in a run
MaxEvents == 4         \* reaction events and history calls in a run

\* ------------------------------------------------------------ input domains
Guilds == {1}
Users == {1, 2}
EmojiValues == {-1, 2}         \* configured karma values of the emoji used
Fields == {"value", "given", "taken"}
Members == {1, 2}              \* guild members of the starboard scenarios
Emojis == {"up", "down"}
SourceMessages == {1, 2}       \* ids of messages of the source channel
Limits == {1, 2}               \* configured repost thresholds
SourceChannel == "source"
StarboardChannelId == "starboard"
TheGuild == CHOOSE g \in Guilds : TRUE
Bot == 0                            \* the bot's own user id
\* _process_reaction reads the guild, channel and message id of its event
\* and nothing else: a repost handler keeps no user and no emoji
NoUser == -1
NoEmoji == "-"

\* Karma.get_cache_key
get_cache_key(guild_id, user_id) == <<guild_id, user_id>>

Keys == {get_cache_key(g, u) : g \in Guilds, u \in Users}

VARIABLES
    value_cache,      \* Karma.value_cache: dict key -> int
    given_cache,      \* Karma.given_cache
    taken_cache,      \* Karma.taken_cache
    members,          \* KarmaMember rows: key -> [value, given, taken]
    save_pc,          \* position of _karma_cache_save: idle/value/given/taken
    save_value,       \* local value_cache of the running _karma_cache_save
    save_given,       \* local given_cache
    save_taken,       \* local taken_cache
    loop,             \* karma_cache_loop: running/final/stopped/failed
    sb_channels,      \* StarboardChannel rows
    source_channels,  \* Starboard.source_channels (list)
    starboard_channels, \* Starboard.starboard_channels (list)
    karma_loaded,     \* bot.get_cog("Karma") is not None
    sb_messages,      \* StarboardMessage rows, in idx order
    reaction_processing, \* Starboard._reaction_processing (list)
    reactions,        \* platform: message id -> set of <<user, emoji>>
    posted,           \* platform: messages sent to the starboard channel
    tasks,            \* running handlers, in order of arrival: position and locals
    events,           \* number of events dispatched so far
    \* history variables (observation only, never read by the program)
    exited,           \* handlers that returned: <<source message, kind, origin, exit path>>
    calls,            \* number of reaction_added/removed calls so far
    flushes,          \* number of _karma_cache_save runs started so far
    win_count,        \* field -> key -> deltas applied since the last snapshot
    win_sum,          \* field -> key -> their arithmetic sum
    snap_count,       \* win_count as it was at the last snapshot
    snap_sum,         \* win_sum as it was at the last snapshot
    store_calls,      \* field -> key -> store updates made by the last flush
    store_sum,        \* field -> key -> sum of the deltas it added
    applied,          \* field -> key -> sum of every delta ever applied
    late,             \* field -> key -> sum of deltas applied since the snapshot
                      \*   of the running flush
    late_seen,        \* a delta was applied while a flush was running
    lost,             \* field -> key -> deltas of the store calls that raised
    relayed,          \* the last relay call of _proxy_karma: {} or one record
    \* Messages plugin
    positive_cache,   \* Messages.positive_cache: number of rows
    msg_stored,       \* UserChannel: sum of the count columns
    lock_held,        \* Messages.lock._locked
    lock_waiters,     \* Messages.lock._waiters, in order of arrival
    lock_woken,       \* the first waiter's future is done and it has not run yet
    mpc,              \* task -> position: the bulker loop and the two sync listeners
    cancelled,        \* bulker.cancel() has been called
    \* history variables of the Messages plugin
    tick_queued,      \* a tick that found the lock held went on to wait for it
    overlap,          \* _save_cache ran while another task was inside the lock
    skipped,          \* a tick found the lock held and did nothing
    final_waited,     \* after_bulker had to wait for the lock
    \* Messages plugin, the caches row by row
    positive_rows,    \* Messages.positive_cache: its rows, in order of arrival
    negative_cache,   \* Messages.negative_cache: its rows, in order of arrival
    user_channels,    \* UserChannel: (channel, user) -> [count, last_msg_at]
    bulk_calls,       \* history: the bulk calls made by the last _save_cache
    \* Points plugin
    clock,            \* datetime.datetime.now(), in seconds
    stats_message,    \* Points.stats_message: guild -> user -> time of the award
    stats_reaction,   \* Points.stats_reaction: guild -> user -> time of the award
    user_stats,       \* UserStats: (guild, user) -> points
    last_award,       \* history: kind -> (guild, user) -> time of the last award, or -1
    award_count,      \* history: kind -> (guild, user) -> awards so far
    denied            \* history: the kinds of the events that got no award

karma_vars == <<value_cache, given_cache, taken_cache, members, save_pc,
                save_value, save_given, save_taken>>
hist_vars == <<calls, flushes, win_count, win_sum, snap_count, snap_sum,
               store_calls, store_sum, applied, late, late_seen>>
star_vars == <<sb_channels, source_channels, starboard_channels, karma_loaded,
               sb_messages, reaction_processing, reactions, posted, tasks,
               events, exited>>
loop_vars == <<loop, lost>>
row_vars == <<positive_rows, negative_cache, user_channels, bulk_calls>>
points_vars == <<clock, stats_message, stats_reaction, user_stats, last_award,
                 award_count, denied>>
msg_vars == <<positive_cache, msg_stored, lock_held, lock_waiters, lock_woken, mpc,
              cancelled, tick_queued, overlap, skipped, final_waited, row_vars,
              points_vars>>
vars == <<karma_vars, hist_vars, star_vars, loop_vars, msg_vars, relayed>>

\* ----------------------------------------------------------------- helpers
EmptyDict == [k \in {} |-> 0]
ZeroTable == [f \in Fields |-> [k \in Keys |-> 0]]

\* dict.get(key, 0)
Get(d, k) == IF k \in DOMAIN d THEN d[k] ELSE 0

\* cache.setdefault(key, 0); cache[key] = delta   (the += lost)
CacheOverwrite(cache, key, delta) ==
    [k \in DOMAIN cache \cup {key} |-> IF k = key THEN delta ELSE cache[k]]

\* cache.setdefault(key, 0); cache[key] += delta
CacheAdd(cache, key, delta) ==
    [k \in DOMAIN cache \cup {key} |->
        IF k = key THEN Get(cache, key) + delta ELSE cache[k]]

\* dict without one entry (the entry the for loop has just handled)
Without(d, key) == [k \in DOMAIN d \ {key} |-> d[k]]

NewMember == [value |-> 0, given |-> 0, taken |-> 0]

\* KarmaMember.get_or_add
get_or_add(rows, key) ==
    IF key \in DOMAIN rows THEN rows
    ELSE [k \in DOMAIN rows \cup {key} |-> IF k = key THEN NewMember ELSE rows[k]]

\* member = get_or_add(..); member.<field> = delta; member.save()
StoreSet(rows, field, key, delta) ==
    LET r == get_or_add(rows, key)
    IN  [r EXCEPT ![key] = [@ EXCEPT ![field] = delta]]

\* member = get_or_add(..); member.<field> += delta; member.save()
StoreAdd(rows, field, key, delta) ==
    LET r == get_or_add(rows, key)
    IN  [r EXCEPT ![key] = [@ EXCEPT ![field] = @ + delta]]

Stored(field, key) == IF key \in DOMAIN members THEN members[key][field] ELSE 0

Bump(tab, field, key, n) == [tab EXCEPT ![field][key] = @ + n]

Phase(sv, sg, st) ==
    IF sv # EmptyDict THEN "value"
    ELSE IF sg # EmptyDict THEN "given"
    ELSE IF st # EmptyDict THEN "taken" ELSE "idle"

\* ---------------------------------------------------------- karma cache
Cache(field) ==
    IF field = "value" THEN value_cache
    ELSE IF field = "given" THEN given_cache ELSE taken_cache

Saving(field) ==
    IF field = "value" THEN save_value
    ELSE IF field = "given" THEN save_given ELSE save_taken

\* what one call asks of the accumulators: <<field, key, delta>>;
\* sign is 1 for reaction_added and -1 for reaction_removed
Touched(guild_id, msg_author_id, react_author_id, emoji_value, sign) ==
    { <<"value", get_cache_key(guild_id, msg_author_id), sign * emoji_value>>,
      IF emoji_value > 0
        THEN <<"given", get_cache_key(guild_id, react_author_id), sign * emoji_value>>
        ELSE <<"taken", get_cache_key(guild_id, react_author_id), sign * (-emoji_value)>> }

Hits(touched, f, k) == {x \in touched : x[1] = f /\ x[2] = k}
Amount(touched, f, k) ==
    IF Hits(touched, f, k) = {} THEN 0 ELSE (CHOOSE x \in Hits(touched, f, k) : TRUE)[3]

\* history of one call
Record(touched) ==
    /\ calls' = calls + 1
    /\ win_count' = [f \in Fields |-> [k \in Keys |->
            win_count[f][k] + Cardinality(Hits(touched, f, k))]]
    /\ win_sum' = [f \in Fields |-> [k \in Keys |->
            win_sum[f][k] + Amount(touched, f, k)]]
    /\ applied' = [f \in Fields |-> [k \in Keys |->
            applied[f][k] + Amount(touched, f, k)]]
    /\ late' = [f \in Fields |-> [k \in Keys |->
            late[f][k] + (IF save_pc = "idle" THEN 0 ELSE Amount(touched, f, k))]]
    /\ late_seen' = (late_seen \/ save_pc # "idle")
    /\ UNCHANGED <<flushes, snap_count, snap_sum, store_calls, store_sum>>

\* reaction_added without the test of the sign: given receives every value
reaction_added_given(guild_id, msg_author_id, react_author_id, emoji_value) ==
    LET msg_author == get_cache_key(guild_id, msg_author_id)
        react_author == get_cache_key(guild_id, react_author_id)
    IN  /\ value_cache' = CacheAdd(value_cache, msg_author, emoji_value)
        /\ given_cache' = CacheAdd(given_cache, react_author, emoji_value)
        /\ taken_cache' = taken_cache

\* Karma.reaction_added: the three caches after the call
reaction_added(guild_id, msg_author_id, react_author_id, emoji_value) ==
    LET msg_author == get_cache_key(guild_id, msg_author_id)
        react_author == get_cache_key(guild_id, react_author_id)
    IN  /\ value_cache' = CacheAdd(value_cache, msg_author, emoji_value)
        /\ IF emoji_value > 0
             THEN /\ given_cache' = CacheAdd(given_cache, react_author, emoji_value)
                  /\ taken_cache' = taken_cache
             ELSE /\ taken_cache' = CacheAdd(taken_cache, react_author, -emoji_value)
                  /\ given_cache' = given_cache

\* reaction_removed with the taken branch written as in reaction_added
reaction_removed_taken(guild_id, msg_author_id, react_author_id, emoji_value) ==
    LET msg_author == get_cache_key(guild_id, msg_author_id)
        react_author == get_cache_key(guild_id, react_author_id)
    IN  /\ value_cache' = CacheAdd(value_cache, msg_author, -emoji_value)
        /\ IF emoji_value > 0
             THEN /\ given_cache' = CacheAdd(given_cache, react_author, -emoji_value)
                  /\ taken_cache' = taken_cache
             ELSE /\ taken_cache' = CacheAdd(taken_cache, react_author, -emoji_value)
                  /\ given_cache' = given_cache

\* Karma.reaction_removed
reaction_removed(guild_id, msg_author_id, react_author_id, emoji_value) ==
    LET msg_author == get_cache_key(guild_id, msg_author_id)
        react_author == get_cache_key(guild_id, react_author_id)
    IN  /\ value_cache' = CacheAdd(value_cache, msg_author, -emoji_value)
        /\ IF emoji_value > 0
             THEN /\ given_cache' = CacheAdd(given_cache, react_author, -emoji_value)
                  /\ taken_cache' = taken_cache
             ELSE /\ taken_cache' = CacheAdd(taken_cache, react_author, -(-emoji_value))
                  /\ given_cache' = given_cache

\* a caller awaits reaction_added with well-formed arguments
ReactionAdded ==
    /\ karma_loaded
    /\ calls < MaxCalls
    /\ \E g \in Guilds, a \in Users, r \in Users, v \in EmojiValues :
          /\ reaction_added(g, a, r, v)
          /\ Record(Touched(g, a, r, v, 1))
    /\ UNCHANGED <<members, save_pc, save_value, save_given, save_taken, star_vars, loop_vars, msg_vars, relayed>>

\* a caller awaits reaction_removed with well-formed arguments
ReactionRemoved ==
    /\ karma_loaded
    /\ calls < MaxCalls
    /\ \E g \in Guilds, a \in Users, r \in Users, v \in EmojiValues :
          /\ reaction_removed(g, a, r, v)
          /\ Record(Touched(g, a, r, v, -1))
    /\ UNCHANGED <<members, save_pc, save_value, save_given, save_taken, star_vars, loop_vars, msg_vars, relayed>>

\* _karma_cache_save, lines 61-66, with the snapshot kept and not cleared
SnapshotKeep ==
    /\ save_value' = value_cache /\ value_cache' = value_cache
    /\ save_given' = given_cache /\ given_cache' = given_cache
    /\ save_taken' = taken_cache /\ taken_cache' = taken_cache

\* lines 61-66 with each cache reset to 0 entry by entry, not replaced
SnapshotZero ==
    /\ save_value' = value_cache /\ value_cache' = [k \in DOMAIN value_cache |-> 0]
    /\ save_given' = given_cache /\ given_cache' = [k \in DOMAIN given_cache |-> 0]
    /\ save_taken' = taken_cache /\ taken_cache' = [k \in DOMAIN taken_cache |-> 0]

\* _karma_cache_save, lines 61-66: copy each cache and replace it by {}
Snapshot ==
    /\ save_value' = value_cache /\ value_cache' = EmptyDict
    /\ save_given' = given_cache /\ given_cache' = EmptyDict
    /\ save_taken' = taken_cache /\ taken_cache' = EmptyDict

\* karma_cache_loop fires: _karma_cache_save up to its first store call
KarmaCacheSave ==
    /\ loop = "running"
    /\ save_pc = "idle"
    /\ flushes < MaxFlushes \/ Phase(value_cache, given_cache, taken_cache) # "idle"
    /\ Snapshot
    /\ save_pc' = Phase(save_value', save_given', save_taken')
    /\ flushes' = IF flushes < MaxFlushes THEN flushes + 1 ELSE flushes
    /\ snap_count' = win_count /\ snap_sum' = win_sum
    /\ win_count' = ZeroTable /\ win_sum' = ZeroTable
    /\ store_calls' = ZeroTable /\ store_sum' = ZeroTable
    /\ late' = ZeroTable
    /\ UNCHANGED <<members, calls, applied, late_seen, star_vars, loop_vars, msg_vars, relayed>>

\* one iteration of a for loop of _karma_cache_save over its local copy
SaveEntry(field, key) ==
    /\ save_pc = field
    /\ key \in DOMAIN Saving(field)
    /\ members' = StoreAdd(members, field, key, Saving(field)[key])
    /\ save_value' = IF field = "value" THEN Without(save_value, key) ELSE save_value
    /\ save_given' = IF field = "given" THEN Without(save_given, key) ELSE save_given
    /\ save_taken' = IF field = "taken" THEN Without(save_taken, key) ELSE save_taken
    /\ save_pc' = Phase(save_value', save_given', save_taken')
    /\ store_calls' = Bump(store_calls, field, key, 1)
    /\ store_sum' = Bump(store_sum, field, key, Saving(field)[key])
    /\ loop' = IF loop = "final" /\ save_pc' = "idle" THEN "stopped" ELSE loop
    /\ UNCHANGED <<value_cache, given_cache, taken_cache, calls, flushes,
                   win_count, win_sum, snap_count, snap_sum, applied, late,
                   late_seen, star_vars, lost, msg_vars, relayed>>

\* lines 68-71
SaveValue == \E key \in Keys : SaveEntry("value", key)
\* lines 73-76
SaveGiven == \E key \in Keys : SaveEntry("given", key)
\* lines 78-81
SaveTaken == \E key \in Keys : SaveEntry("taken", key)

\* the tasks of the Messages plugin: the bulker loop, on_ready, on_guild_join
MTasks == {"bulker", "ready", "join"}
Syncs == {"ready", "join"}

\* Messages.__init__: empty caches, a free lock, the loop started
\* the (channel, user) pairs of the one guild whose messages are counted
MsgChannels == {1, 2}
MsgKeys == MsgChannels \X Users

\* Messages.__init__ lines 42-44 and an empty UserChannel table
InitRows ==
    /\ positive_rows = <<>> /\ negative_cache = <<>>
    /\ user_channels = [k \in {} |-> 0]
    /\ bulk_calls = <<>>

\* the guilds and the member whose points are followed
PointGuilds == {1, 2}
PointUsers == {1}
PointKeys == PointGuilds \X PointUsers
PointKinds == {"message", "reaction"}

\* Points.__init__ lines 29-30 and an empty UserStats table
InitPoints ==
    /\ clock = 0
    /\ stats_message = [g \in {} |-> 0] /\ stats_reaction = [g \in {} |-> 0]
    /\ user_stats = [k \in {} |-> 0]
    /\ last_award = [kind \in PointKinds |-> [k \in PointKeys |-> -1]]
    /\ award_count = [kind \in PointKinds |-> [k \in PointKeys |-> 0]]
    /\ denied = {}

InitMessages ==
    /\ InitRows /\ InitPoints
    /\ positive_cache = 0 /\ msg_stored = 0
    /\ lock_held = FALSE /\ lock_waiters = <<>> /\ lock_woken = FALSE
    /\ mpc = [t \in MTasks |-> IF t = "bulker" THEN "sleep" ELSE "idle"]
    /\ cancelled = FALSE
    /\ tick_queued = FALSE /\ overlap = FALSE /\ skipped = FALSE /\ final_waited = FALSE

InitKarma ==
    /\ InitMessages
    /\ value_cache = EmptyDict /\ given_cache = EmptyDict /\ taken_cache = EmptyDict
    /\ members = EmptyDict
    /\ save_pc = "idle"
    /\ save_value = EmptyDict /\ save_given = EmptyDict /\ save_taken = EmptyDict
    /\ calls = 0 /\ flushes = 0
    /\ win_count = ZeroTable /\ win_sum = ZeroTable
    /\ snap_count = ZeroTable /\ snap_sum = ZeroTable
    /\ store_calls = ZeroTable /\ store_sum = ZeroTable
    /\ applied = ZeroTable /\ late = ZeroTable /\ late_seen = FALSE
    /\ loop = "running" /\ lost = ZeroTable
    /\ relayed = {}

\* Starboard.__init__ on an empty StarboardChannel table
InitNoStarboard ==
    /\ sb_channels = {} /\ source_channels = <<>> /\ starboard_channels = <<>>
    /\ karma_loaded = TRUE
    /\ sb_messages = <<>> /\ reaction_processing = <<>>
    /\ reactions = [m \in {} |-> {}] /\ posted = {}
    /\ tasks = <<>> /\ events = 0 /\ exited = {}

InitCache == InitKarma /\ InitNoStarboard

NextCache ==
    \/ ReactionAdded
    \/ ReactionRemoved
    \/ KarmaCacheSave
    \/ SaveValue
    \/ SaveGiven
    \/ SaveTaken

SpecCache == InitCache /\ [][NextCache]_vars

\* C1: when a flush has finished, every key of every accumulator that
\* received N >= 1 deltas before the flush's snapshot got exactly one store
\* update from that flush, adding the arithmetic sum of the N deltas; a key
\* that received none got no store update.
CoalescedFlush ==
    (save_pc = "idle" /\ flushes > 0) =>
        \A f \in Fields, k \in Keys :
            IF snap_count[f][k] >= 1
              THEN store_calls[f][k] = 1 /\ store_sum[f][k] = snap_sum[f][k]
              ELSE store_calls[f][k] = 0

\* a finished flush that coalesced two deltas of one key into one update
CoalescedFlushWitness ==
    /\ save_pc = "idle" /\ flushes > 0
    /\ \E f \in Fields, k \in Keys :
          snap_count[f][k] = 2 /\ store_calls[f][k] = 1 /\ store_sum[f][k] = 4

\* C2: a delta applied while a flush is running stays in the fresh
\* accumulator, untouched by that flush, and every delta ever applied is in
\* exactly one of: the store, the unwritten rest of the running flush's
\* snapshot, the accumulator.
NoLossAcrossFlush ==
    \A f \in Fields, k \in Keys :
        /\ Stored(f, k) + Get(Saving(f), k) + Get(Cache(f), k) = applied[f][k]
        /\ save_pc # "idle" => Get(Cache(f), k) = late[f][k]

\* a delta was applied during a flush, and after the next flush the store
\* holds every applied delta once
NoLossAcrossFlushWitness ==
    /\ late_seen /\ save_pc = "idle" /\ flushes = 2
    /\ value_cache = EmptyDict /\ given_cache = EmptyDict /\ taken_cache = EmptyDict
    /\ \E k \in Keys : applied["value"][k] # 0 /\ Stored("value", k) = applied["value"][k]

\* ------------------------------------------------------- starboard repost

\* channel and author of a platform message: source messages are written by
\* member 1 in the source channel, repost copies by the bot
ChannelOf(m) == IF m \in SourceMessages THEN SourceChannel ELSE StarboardChannelId
AuthorOf(m) == IF m \in SourceMessages THEN 1 ELSE Bot
\* the message carries attachments that go into a secondary message
HasSecondary(m) == m = 2

\* get_emoji_value with 1 as the default of getattr
get_emoji_value_default(guild_id, emoji) ==
    IF emoji = "up" THEN 2 ELSE IF emoji = "down" THEN -1 ELSE 1

\* UnicodeEmoji table read by Karma.get_emoji_value (default 0)
get_emoji_value(guild_id, emoji) ==
    IF emoji = "up" THEN 2 ELSE IF emoji = "down" THEN -1 ELSE 0

InList(list, x) == \E i \in 1..Len(list) : list[i] = x

\* a removal that drops every occurrence of x
ListRemoveAll(list, x) == SelectSeq(list, LAMBDA y : y # x)

\* list.remove(x): drops the first occurrence
RECURSIVE ListRemove(_, _)
ListRemove(list, x) ==
    IF list = <<>> THEN <<>>
    ELSE IF Head(list) = x THEN Tail(list)
    ELSE <<Head(list)>> \o ListRemove(Tail(list), x)

Occurrences(list, x) == Cardinality({i \in 1..Len(list) : list[i] = x})

\* StarboardMessage.get_all(guild_id, source_message_id=..)
get_all_source(guild_id, source_message_id) ==
    SelectSeq(sb_messages, LAMBDA r :
        r.guild_id = guild_id /\ r.source_message_id = source_message_id)

\* StarboardMessage.get_all(guild_id, starboard_message_id=..)
get_all_starboard(guild_id, starboard_message_id) ==
    SelectSeq(sb_messages, LAMBDA r :
        r.guild_id = guild_id /\ r.starboard_message_id = starboard_message_id)

\* StarboardChannel.get(guild_id, source_channel_id): the guild is not part
\* of the query; the result is the set of rows of one_or_none()
StarboardChannel_get(guild_id, source_channel_id) ==
    {c \in sb_channels : c.source_channel_id = source_channel_id}

\* line 563 as it would answer if the lock were kept until the handler left:
\* any id in the in-flight set turns the event away
AnyProcessing(message_id) == reaction_processing # <<>>

\* _process_reaction line 563 with the test dropped
NeverProcessing(message_id) == FALSE

\* _process_reaction line 563: reaction.message_id in self._reaction_processing
IsProcessing(message_id) == InList(reaction_processing, message_id)

\* _process_reaction lines 566-569 with the test dropped
NeverReposted(guild_id, message_id) == FALSE

\* _process_reaction lines 566-569: a StarboardMessage row exists for the source
IsReposted(guild_id, message_id) == get_all_source(guild_id, message_id) # <<>>

\* m_reaction.count of the fetched message
Count(fetched, emoji) == Cardinality({r \in fetched : r[2] = emoji})

\* lines 595-603 without the karma test of lines 599-603
QualifiesByCount(fetched, limit) ==
    \E e \in {r[2] : r \in fetched} : ~(Count(fetched, e) < limit)

\* _process_reaction lines 595-603: some reaction of the fetched message
\* reaches the limit and, with Karma loaded, has a positive karma value
Qualifies(fetched, limit) ==
    \E e \in {r[2] : r \in fetched} :
        /\ ~(Count(fetched, e) < limit)
        /\ ~(karma_loaded /\ get_emoji_value(TheGuild, e) < 1)

NewTask(kind, via, message_id, user_id, emoji) ==
    [kind |-> kind, via |-> via, pc |-> "start", message_id |-> message_id,
     user_id |-> user_id, emoji |-> emoji, fetched |-> {}, sent |-> <<>>,
     row |-> 0]

\* the source message a message belongs to: itself, or the one it is a copy of
LogicalPost(m) ==
    IF get_all_starboard(TheGuild, m) = <<>> THEN m
    ELSE get_all_starboard(TheGuild, m)[1].source_message_id

Dropped(seq, h) == [i \in 1..(Len(seq) - 1) |-> IF i < h THEN seq[i] ELSE seq[i + 1]]

\* the handler returns: its task ends
Finish(h, how) ==
    /\ tasks' = Dropped(tasks, h)
    /\ exited' = exited \cup {<<LogicalPost(tasks[h].message_id), tasks[h].kind,
                                 tasks[h].via, how>>}

Running(h) == h \in 1..Len(tasks)

\* Starboard.on_raw_reaction_add: the handlers the event starts
on_raw_reaction_add(channel_id, message_id, user_id, emoji) ==
    IF InList(source_channels, channel_id)
      THEN <<NewTask("repost", "listener", message_id, NoUser, NoEmoji)>>
    ELSE IF InList(starboard_channels, channel_id)
      THEN <<NewTask("proxy_add", "listener", message_id, user_id, emoji)>>
    ELSE <<>>

\* a member adds a reaction to a source message; the gateway delivers the event
AddReaction ==
    /\ events < MaxEvents
    /\ \E u \in Members, m \in DOMAIN reactions, e \in Emojis :
          /\ m \in SourceMessages
          /\ <<u, e>> \notin reactions[m]
          /\ reactions' = [reactions EXCEPT ![m] = @ \cup {<<u, e>>}]
          /\ tasks' = tasks \o on_raw_reaction_add(ChannelOf(m), m, u, e)
    /\ events' = events + 1
    /\ UNCHANGED <<karma_vars, hist_vars, loop_vars, msg_vars, relayed, sb_channels, source_channels,
                   starboard_channels, karma_loaded, sb_messages,
                   reaction_processing, posted, exited>>

\* starboard_admin_history lines 286-300: one pass of the loop over the
\* channel history, for a configured source channel
History ==
    /\ events < MaxEvents
    /\ StarboardChannel_get(TheGuild, SourceChannel) # {}
    /\ \E m \in DOMAIN reactions :
          /\ m \in SourceMessages
          /\ tasks' = Append(tasks, NewTask("repost", "history", m, NoUser, NoEmoji))
    /\ events' = events + 1
    /\ UNCHANGED <<karma_vars, hist_vars, loop_vars, msg_vars, relayed, sb_channels, source_channels,
                   starboard_channels, karma_loaded, sb_messages,
                   reaction_processing, reactions, posted, exited>>

\* starboard_admin_unset lines 196-248, for a configured source channel: the
\* row is read and the two cached lists are updated; the command then waits
\* for guild_log.info
Unset ==
    /\ events < MaxEvents
    /\ StarboardChannel_get(TheGuild, SourceChannel) # {}
    /\ InList(source_channels, SourceChannel)
    /\ \A h \in DOMAIN tasks : tasks[h].kind # "unset"
    /\ source_channels' = ListRemove(source_channels, SourceChannel)
    /\ starboard_channels' = ListRemove(starboard_channels, StarboardChannelId)
    /\ tasks' = Append(tasks, NewTask("unset", "command", 0, NoUser, NoEmoji))
    /\ events' = events + 1
    /\ UNCHANGED <<karma_vars, hist_vars, loop_vars, msg_vars, relayed, sb_channels, karma_loaded, sb_messages,
                   reaction_processing, reactions, posted, exited>>

\* line 250 as a removal that also deletes the channel's repost rows
UnsetRemovePurge(h) ==
    /\ Running(h) /\ tasks[h].kind = "unset"
    /\ sb_channels' = sb_channels \ StarboardChannel_get(TheGuild, SourceChannel)
    /\ sb_messages' = SelectSeq(sb_messages, LAMBDA r : r.source_channel_id # SourceChannel)
    /\ Finish(h, "unset")
    /\ UNCHANGED <<karma_vars, hist_vars, loop_vars, msg_vars, relayed, source_channels, starboard_channels,
                   karma_loaded, reaction_processing, reactions,
                   posted, events>>

\* starboard_admin_unset line 250: sb_channel.remove()
UnsetRemove(h) ==
    /\ Running(h) /\ tasks[h].kind = "unset"
    /\ sb_channels' = sb_channels \ StarboardChannel_get(TheGuild, SourceChannel)
    /\ Finish(h, "unset")
    /\ UNCHANGED <<karma_vars, hist_vars, loop_vars, msg_vars, relayed, source_channels, starboard_channels,
                   karma_loaded, sb_messages, reaction_processing, reactions,
                   posted, events>>

\* what a step of a repost handler leaves alone
ReposterFrame ==
    UNCHANGED <<karma_vars, hist_vars, loop_vars, msg_vars, relayed, sb_channels, source_channels,
                starboard_channels, karma_loaded, reactions, events>>

At(h, kind, pc) == Running(h) /\ tasks[h].kind = kind /\ tasks[h].pc = pc

\* _process_reaction lines 562-572: the check-and-insert under _reaction_lock
\* (no suspension point inside the lock)
ProcessEnter(h) ==
    /\ At(h, "repost", "start")
    /\ LET m == tasks[h].message_id
       IN  IF IsProcessing(m)
             THEN /\ Finish(h, "busy")
                  /\ UNCHANGED reaction_processing
           ELSE IF IsReposted(TheGuild, m)
             THEN /\ Finish(h, "reposted")
                  /\ UNCHANGED reaction_processing
           ELSE /\ reaction_processing' = Append(reaction_processing, m)
                /\ tasks' = [tasks EXCEPT ![h].pc = "fetch"]
                /\ UNCHANGED exited
    /\ UNCHANGED <<sb_messages, posted>>
    /\ ReposterFrame

\* line 576: the platform answers get_message with the message as it is now;
\* the answer reaches the handler in a later step
ProcessFetch(h) ==
    /\ At(h, "repost", "fetch")
    /\ tasks' = [tasks EXCEPT ![h].pc = "eval",
                              ![h].fetched = reactions[tasks[h].message_id]]
    /\ UNCHANGED <<sb_messages, reaction_processing, posted, exited>>
    /\ ReposterFrame

\* lines 585-587 as a bare return, without line 586
ProcessFetchFailedKeep(h) ==
    /\ At(h, "repost", "fetch")
    /\ Finish(h, "nofetch")
    /\ UNCHANGED <<sb_messages, posted, reaction_processing>>
    /\ ReposterFrame

\* lines 576-587: get_message raises or returns None
ProcessFetchFailed(h) ==
    /\ At(h, "repost", "fetch")
    /\ reaction_processing' = ListRemove(reaction_processing, tasks[h].message_id)
    /\ Finish(h, "nofetch")
    /\ UNCHANGED <<sb_messages, posted>>
    /\ ReposterFrame

\* lines 585-605 and 624-633, 700-730: the answer arrives; the threshold is
\* evaluated on the fetched message and, if met, the primary message is sent
ProcessEval(h) ==
    /\ At(h, "repost", "eval")
    /\ LET m == tasks[h].message_id
           sb_db_channel == StarboardChannel_get(TheGuild, ChannelOf(m))
       IN  IF tasks[h].fetched = {}
             THEN \* no reaction on the message: the loop body never runs
                  /\ reaction_processing' = ListRemove(reaction_processing, m)
                  /\ Finish(h, "nolimit")
           ELSE IF sb_db_channel = {}
             THEN \* None.limit raises AttributeError, line 596: the handler
                  \* ends there and line 616 is not reached
                  /\ Finish(h, "raised")
                  /\ UNCHANGED reaction_processing
           ELSE IF \E c \in sb_db_channel : Qualifies(tasks[h].fetched, c.limit)
             THEN /\ tasks' = [tasks EXCEPT ![h].pc = "send"]
                  /\ UNCHANGED <<reaction_processing, exited>>
           ELSE /\ reaction_processing' = ListRemove(reaction_processing, m)
                /\ Finish(h, "nolimit")
    /\ UNCHANGED <<sb_messages, posted>>
    /\ ReposterFrame

\* id the platform gives to the next message sent to the starboard channel
NextCopy(sent) == 100 + Cardinality(sent) + 1
NextId == NextCopy(posted)

\* lines 636-644 with the loop cut after the first message sent
AddRowsPrimary(rows, source, sent) ==
    rows \o [i \in 1..(IF sent = <<>> THEN 0 ELSE 1) |->
               [idx |-> Len(rows) + i, guild_id |-> TheGuild,
                author_id |-> AuthorOf(source),
                source_channel_id |-> ChannelOf(source),
                source_message_id |-> source,
                starboard_channel_id |-> StarboardChannelId,
                starboard_message_id |-> sent[i]]]

\* StarboardMessage.add for every message of starboard_messages (lines 636-644)
AddRows(rows, source, sent) ==
    rows \o [i \in 1..Len(sent) |->
               [idx |-> Len(rows) + i, guild_id |-> TheGuild,
                author_id |-> AuthorOf(source),
                source_channel_id |-> ChannelOf(source),
                source_message_id |-> source,
                starboard_channel_id |-> StarboardChannelId,
                starboard_message_id |-> sent[i]]]

\* lines 730, 740-746, 636-644: channel.send delivers the primary message;
\* without secondary attachments the rows are recorded in the same step
ProcessSend(h) ==
    /\ At(h, "repost", "send")
    /\ LET m == tasks[h].message_id
       IN  /\ posted' = posted \cup {[id |-> NextId, source |-> m, kind |-> "primary"]}
           /\ IF HasSecondary(m)
                THEN /\ tasks' = [tasks EXCEPT ![h].pc = "second", ![h].sent = <<NextId>>]
                     /\ UNCHANGED sb_messages
                ELSE /\ tasks' = [tasks EXCEPT ![h].pc = "sent"]
                     /\ sb_messages' = AddRows(sb_messages, m, <<NextId>>)
    /\ UNCHANGED <<reaction_processing, exited>>
    /\ ReposterFrame

\* lines 624-631 and 731-738: the starboard channel is gone or channel.send
\* raises; _repost_message records nothing
ProcessSendFailed(h) ==
    /\ At(h, "repost", "send")
    /\ tasks' = [tasks EXCEPT ![h].pc = "unsent"]
    /\ UNCHANGED <<sb_messages, reaction_processing, posted, exited>>
    /\ ReposterFrame

\* _send_secondary lines 762-780, then lines 636-644: the secondary message is
\* sent (ok) or its send raises; the messages sent are recorded
ProcessSecondary(h) ==
    /\ At(h, "repost", "second")
    /\ LET m == tasks[h].message_id
       IN  \E ok \in BOOLEAN :
             /\ posted' = IF ok
                            THEN posted \cup {[id |-> NextId, source |-> m, kind |-> "secondary"]}
                            ELSE posted
             /\ sb_messages' = AddRows(sb_messages, m,
                                  IF ok THEN Append(tasks[h].sent, NextId) ELSE tasks[h].sent)
    /\ tasks' = [tasks EXCEPT ![h].pc = "sent", ![h].sent = <<>>]
    /\ UNCHANGED <<reaction_processing, exited>>
    /\ ReposterFrame

\* the handler returning with line 616 left out
ProcessLeaveKeep(h) ==
    /\ Running(h) /\ tasks[h].kind = "repost" /\ tasks[h].pc \in {"sent", "unsent"}
    /\ Finish(h, tasks[h].pc)
    /\ UNCHANGED <<sb_messages, posted, reaction_processing>>
    /\ ReposterFrame

\* lines 609-616: guild_log.info returns; the in-flight marker is removed
ProcessLeave(h) ==
    /\ Running(h) /\ tasks[h].kind = "repost" /\ tasks[h].pc \in {"sent", "unsent"}
    /\ reaction_processing' = ListRemove(reaction_processing, tasks[h].message_id)
    /\ Finish(h, tasks[h].pc)
    /\ UNCHANGED <<sb_messages, posted>>
    /\ ReposterFrame


\* Starboard.__init__ with one configured source channel; one message has
\* been posted in the source channel
InitStarboard ==
    /\ \E l \in Limits :
          sb_channels = {[guild_id |-> TheGuild, source_channel_id |-> SourceChannel,
                          starboard_channel_id |-> StarboardChannelId, limit |-> l]}
    /\ source_channels = <<SourceChannel>>
    /\ starboard_channels = <<StarboardChannelId>>
    /\ karma_loaded \in BOOLEAN
    /\ sb_messages = <<>> /\ reaction_processing = <<>>
    /\ \E x \in SourceMessages : reactions = [m \in {x} |-> {}]
    /\ posted = {}
    /\ tasks = <<>> /\ events = 0 /\ exited = {}

InitRepost == InitKarma /\ InitStarboard

NextRepost ==
    \/ AddReaction
    \/ History
    \/ Unset
    \/ \E h \in DOMAIN tasks : UnsetRemove(h)
    \/ \E h \in DOMAIN tasks : ProcessEnter(h)
    \/ \E h \in DOMAIN tasks : ProcessFetch(h)
    \/ \E h \in DOMAIN tasks : ProcessFetchFailed(h)
    \/ \E h \in DOMAIN tasks : ProcessEval(h)
    \/ \E h \in DOMAIN tasks : ProcessSend(h)
    \/ \E h \in DOMAIN tasks : ProcessSendFailed(h)
    \/ \E h \in DOMAIN tasks : ProcessSecondary(h)
    \/ \E h \in DOMAIN tasks : ProcessLeave(h)

SpecRepost == InitRepost /\ [][NextRepost]_vars

\* primary repost messages the starboard channel received for a source message
Primaries(m) == {p \in posted : p.source = m /\ p.kind = "primary"}
RowsOf(m) == {sb_messages[i] : i \in {j \in 1..Len(sb_messages) :
                                         sb_messages[j].source_message_id = m}}
InFlight(h) ==
    tasks[h].pc \in {"fetch", "eval", "send", "second", "sent", "unsent", "raised"}
Exited(m, how) == \E via \in {"listener", "history"} : <<m, "repost", via, how>> \in exited

\* C3: under every interleaving, failed sends included, the starboard channel
\* never holds two primary repost messages of one source message.
AtMostOneRepost ==
    \A m \in SourceMessages : Cardinality(Primaries(m)) <= 1

\* a send of the message failed, a later event reposted it, and an event
\* after that found it reposted
AtMostOneRepostWitness ==
    \E m \in SourceMessages :
        /\ Exited(m, "unsent") /\ Exited(m, "sent") /\ Exited(m, "reposted")
        /\ Cardinality(Primaries(m)) = 1

\* C4: once a StarboardMessage row exists for a source message, no step sends
\* a further message for it or changes its rows.
RepostIsFinal ==
    [][\A m \in SourceMessages :
          RowsOf(m) # {} =>
              /\ RowsOf(m)' = RowsOf(m)
              /\ {p \in posted : p.source = m}' = {p \in posted : p.source = m}]_vars

\* events of the listener and of the history command both met an existing row
RepostIsFinalWitness ==
    \E m \in SourceMessages :
        /\ RowsOf(m) # {}
        /\ <<m, "repost", "listener", "reposted">> \in exited
        /\ <<m, "repost", "history", "reposted">> \in exited

\* C5: of the handlers running for one message at most one is past the
\* check-and-insert (fetching or evaluating); a handler that arrives meanwhile
\* leaves at the check; no message id is twice in _reaction_processing.
SingleFlight ==
    \A m \in SourceMessages :
        /\ Cardinality({h \in 1..Len(tasks) :
                          tasks[h].message_id = m /\ InFlight(h)}) <= 1
        /\ Occurrences(reaction_processing, m) <= 1
        /\ (\E h \in 1..Len(tasks) : tasks[h].message_id = m /\ InFlight(h))
              => IsProcessing(m)

\* one handler evaluates the fetched message while another, for the same
\* un-reposted message, has left at the check
SingleFlightWitness ==
    \E h \in 1..Len(tasks) :
        /\ tasks[h].pc = "eval"
        /\ Exited(tasks[h].message_id, "busy")
        /\ ~IsReposted(TheGuild, tasks[h].message_id)

LimitOf(m) == CHOOSE l \in Limits :
    \E c \in StarboardChannel_get(TheGuild, ChannelOf(m)) : c.limit = l

\* C10: a message that has received only reaction-adds of the positively
\* valued emoji, all delivered by the listener, has no repost while their
\* count is below the limit T, and exactly one recorded repost once the count
\* has reached T and every handler of these events has returned.  (Stated for
\* the runs in which no fetch and no send failed.)
RepostAtThreshold ==
    \A m \in DOMAIN reactions :
        (/\ StarboardChannel_get(TheGuild, ChannelOf(m)) # {}
         /\ InList(source_channels, ChannelOf(m))
         /\ \A r \in reactions[m] : r[2] = "up"
         /\ \A x \in exited : x[1] = m => x[3] = "listener" /\ x[4] \notin {"nofetch", "unsent"}
         /\ \A h \in 1..Len(tasks) : tasks[h].via = "listener")
        =>
        /\ Count(reactions[m], "up") < LimitOf(m) => Primaries(m) = {}
        /\ (/\ Count(reactions[m], "up") >= LimitOf(m)
            /\ \A h \in 1..Len(tasks) : tasks[h].message_id # m)
           => Cardinality(Primaries(m)) = 1 /\ RowsOf(m) # {}

\* ------------------------------------------------------------ karma relay
MaxReactions == 3      \* reaction events of the relay scenarios
MaxPending == 1        \* handlers still running when the next event arrives

\* Karma.on_raw_reaction_add / on_raw_reaction_remove: the handler started
Karma_on_raw_reaction(added, message_id, user_id, emoji) ==
    IF karma_loaded
      THEN <<NewTask(IF added THEN "karma_add" ELSE "karma_remove", "listener",
                     message_id, user_id, emoji)>>
      ELSE <<>>

\* Starboard.on_raw_reaction_remove: the handlers the event starts
on_raw_reaction_remove(channel_id, message_id, user_id, emoji) ==
    IF InList(starboard_channels, channel_id)
      THEN <<NewTask("proxy_remove", "listener", message_id, user_id, emoji)>>
      ELSE <<>>

\* a member adds a reaction to a message of the group; the gateway delivers
\* the event to the listeners of both cogs
React ==
    /\ events < MaxReactions
    /\ Len(tasks) <= MaxPending
    /\ \E u \in Members, m \in DOMAIN reactions, e \in Emojis :
          /\ <<u, e>> \notin reactions[m]
          /\ reactions' = [reactions EXCEPT ![m] = @ \cup {<<u, e>>}]
          /\ tasks' = tasks \o Karma_on_raw_reaction(TRUE, m, u, e)
                            \o on_raw_reaction_add(ChannelOf(m), m, u, e)
    /\ events' = events + 1
    /\ UNCHANGED <<karma_vars, hist_vars, loop_vars, msg_vars, relayed, sb_channels, source_channels,
                   starboard_channels, karma_loaded, sb_messages,
                   reaction_processing, posted, exited>>

\* a member removes a reaction of theirs
Unreact ==
    /\ events < MaxReactions
    /\ Len(tasks) <= MaxPending
    /\ \E u \in Members, m \in DOMAIN reactions, e \in Emojis :
          /\ <<u, e>> \in reactions[m]
          /\ reactions' = [reactions EXCEPT ![m] = @ \ {<<u, e>>}]
          /\ tasks' = tasks \o Karma_on_raw_reaction(FALSE, m, u, e)
                            \o on_raw_reaction_remove(ChannelOf(m), m, u, e)
    /\ events' = events + 1
    /\ UNCHANGED <<karma_vars, hist_vars, loop_vars, msg_vars, relayed, sb_channels, source_channels,
                   starboard_channels, karma_loaded, sb_messages,
                   reaction_processing, posted, exited>>

\* what a step of a relaying handler leaves alone
RelayFrame(h) ==
    UNCHANGED <<members, save_pc, save_value, save_given, save_taken,
                hist_vars, loop_vars, msg_vars, sb_channels, source_channels,
                starboard_channels, karma_loaded, sb_messages, reaction_processing,
                reactions, posted, events>>

KeepCaches == UNCHANGED <<value_cache, given_cache, taken_cache>>

IsAdd(h) == tasks[h].kind \in {"karma_add", "proxy_add"}

\* the call as it would be with the parameters of the callee's signature
KarmaCallBound(added, guild_id, msg_author_id, react_author_id, emoji_value) ==
    IF added
      THEN reaction_added(guild_id, msg_author_id, react_author_id, emoji_value)
      ELSE reaction_removed(guild_id, msg_author_id, react_author_id, emoji_value)

\* Karma._process_reaction lines 736-747: reaction_added is called without
\* its guild_id parameter and reaction_removed with keywords it does not
\* have; both calls raise TypeError before the callee's body runs
KarmaCall(added, guild_id, msg_author_id, react_author_id, emoji_value) ==
    KeepCaches

\* Starboard._proxy_karma lines 464-477: karma.reaction_added(..) and
\* karma.reaction_removed(..) are coroutine functions called without await;
\* the coroutine object is dropped and its body never runs
ProxyCall(added, guild_id, msg_author_id, react_author_id, emoji_value) ==
    KeepCaches

\* Karma._process_reaction lines 710-747 with no ignored channel, taken at
\* the moment get_message answers: before its await the handler has read the
\* emoji table only; the message is found and the relay call raises
KarmaFound(h) ==
    /\ Running(h) /\ tasks[h].kind \in {"karma_add", "karma_remove"}
    /\ LET emoji_value == get_emoji_value(TheGuild, tasks[h].emoji)
       IN  IF emoji_value = 0
             THEN Finish(h, "novalue") /\ KeepCaches
             ELSE /\ KarmaCall(IsAdd(h), TheGuild, AuthorOf(tasks[h].message_id),
                               tasks[h].user_id, emoji_value)
                  /\ Finish(h, "raised")
    /\ UNCHANGED relayed
    /\ RelayFrame(h)

\* lines 718-735: get_message raises NotFound or returns None
KarmaNotFound(h) ==
    /\ Running(h) /\ tasks[h].kind \in {"karma_add", "karma_remove"}
    /\ get_emoji_value(TheGuild, tasks[h].emoji) # 0
    /\ Finish(h, "notfound")
    /\ KeepCaches
    /\ UNCHANGED relayed
    /\ RelayFrame(h)

\* _proxy_karma without the test of lines 446-448
ProxyEnterAnyKarma(h) ==
    /\ Running(h) /\ tasks[h].kind \in {"proxy_add", "proxy_remove"}
    /\ tasks[h].pc = "start"
    /\ LET messages == get_all_starboard(TheGuild, tasks[h].message_id)
                       \o get_all_source(TheGuild, tasks[h].message_id)
       IN  IF messages = <<>> THEN Finish(h, "norow")
           ELSE /\ tasks' = [tasks EXCEPT ![h].pc = "related", ![h].row = messages[1].idx]
                /\ UNCHANGED exited
    /\ KeepCaches
    /\ UNCHANGED relayed
    /\ RelayFrame(h)

\* _proxy_karma lines 435-450 and _get_related_messages line 512: the rows of
\* the reacted message, up to the first fetch of a related message
ProxyEnter(h) ==
    /\ Running(h) /\ tasks[h].kind \in {"proxy_add", "proxy_remove"}
    /\ tasks[h].pc = "start"
    /\ LET messages == get_all_starboard(TheGuild, tasks[h].message_id)
                       \o get_all_source(TheGuild, tasks[h].message_id)
       IN  IF messages = <<>> THEN Finish(h, "norow")
           ELSE IF ~karma_loaded THEN Finish(h, "nokarma")
           ELSE /\ tasks' = [tasks EXCEPT ![h].pc = "related", ![h].row = messages[1].idx]
                /\ UNCHANGED exited
    /\ KeepCaches
    /\ UNCHANGED relayed
    /\ RelayFrame(h)

\* _get_related_messages returning no message at all
RelatedNone(sb_message) == {}

\* _get_related_messages lines 512-553: the source message and the repost
\* copies of the other rows with the same source
Related(sb_message) ==
    {sb_message.source_message_id} \cup
    {r.starboard_message_id : r \in {sb_messages[i] : i \in {j \in 1..Len(sb_messages) :
        /\ sb_messages[j].guild_id = sb_message.guild_id
        /\ sb_messages[j].source_message_id = sb_message.source_message_id
        /\ sb_messages[j].idx # sb_message.idx}}}

\* history of a relay call: the event, the other messages on which the
\* reactor has the emoji at the time of the call, and the related messages
\* whose fetch raised
RelayRecord(h, missed) ==
    [added |-> IsAdd(h), message_id |-> tasks[h].message_id,
     has |-> {x \in DOMAIN reactions \ {tasks[h].message_id} :
                <<tasks[h].user_id, tasks[h].emoji>> \in reactions[x]},
     missed |-> missed]

\* the duplicate check failing closed: with a related message that could
\* not be fetched the event counts as a duplicate
ProxyCheckClosed(h) ==
    /\ Running(h) /\ tasks[h].kind \in {"proxy_add", "proxy_remove"}
    /\ tasks[h].pc = "related"
    /\ \E got \in SUBSET Related(sb_messages[tasks[h].row]) :
          LET message == sb_messages[tasks[h].row]
              emoji_value == get_emoji_value(TheGuild, tasks[h].emoji)
              fetched == UNION {reactions[m] : m \in got}
          IN  IF \/ <<tasks[h].user_id, tasks[h].emoji>> \in fetched
                 \/ got # Related(message)
                THEN Finish(h, "duplicate") /\ KeepCaches /\ UNCHANGED relayed
              ELSE IF message.author_id = tasks[h].user_id
                THEN Finish(h, "self") /\ KeepCaches /\ UNCHANGED relayed
              ELSE IF emoji_value = 0
                THEN Finish(h, "novalue") /\ KeepCaches /\ UNCHANGED relayed
              ELSE /\ ProxyCall(IsAdd(h), TheGuild, message.author_id,
                                tasks[h].user_id, emoji_value)
                   /\ Finish(h, "relayed")
                   /\ relayed' = {RelayRecord(h, Related(message) \ got)}
    /\ RelayFrame(h)

\* _get_related_messages lines 516-553, _check_duplicate lines 494-501 and
\* _proxy_karma lines 451-477, taken at the moment the last fetch answers:
\* each related message has been fetched, or its fetch has raised and the
\* message is left out; the reactions of the fetched messages are compared
\* with the event and the relay call is made
ProxyCheck(h) ==
    /\ Running(h) /\ tasks[h].kind \in {"proxy_add", "proxy_remove"}
    /\ tasks[h].pc = "related"
    /\ \E got \in SUBSET Related(sb_messages[tasks[h].row]) :
          LET message == sb_messages[tasks[h].row]
              emoji_value == get_emoji_value(TheGuild, tasks[h].emoji)
              fetched == UNION {reactions[m] : m \in got}
          IN  IF <<tasks[h].user_id, tasks[h].emoji>> \in fetched
                THEN Finish(h, "duplicate") /\ KeepCaches /\ UNCHANGED relayed
              ELSE IF message.author_id = tasks[h].user_id
                THEN Finish(h, "self") /\ KeepCaches /\ UNCHANGED relayed
              ELSE IF emoji_value = 0
                THEN Finish(h, "novalue") /\ KeepCaches /\ UNCHANGED relayed
              ELSE /\ ProxyCall(IsAdd(h), TheGuild, message.author_id,
                                tasks[h].user_id, emoji_value)
                   /\ Finish(h, "relayed")
                   /\ relayed' = {RelayRecord(h, Related(message) \ got)}
    /\ RelayFrame(h)

\* a source message that has been reposted without secondary attachments:
\* its row, its copy, no reaction on either of them yet, empty karma caches
InitRelay ==
    /\ InitKarma
    /\ LET l == CHOOSE n \in Limits : TRUE IN
          sb_channels = {[guild_id |-> TheGuild, source_channel_id |-> SourceChannel,
                          starboard_channel_id |-> StarboardChannelId, limit |-> l]}
    /\ source_channels = <<SourceChannel>>
    /\ starboard_channels = <<StarboardChannelId>>
    /\ karma_loaded \in BOOLEAN
    /\ reaction_processing = <<>>
    /\ \E x \in {m \in SourceMessages : ~HasSecondary(m)} :
          /\ sb_messages = AddRows(<<>>, x, <<NextCopy({})>>)
          /\ posted = {[id |-> NextCopy({}), source |-> x, kind |-> "primary"]}
          /\ reactions = [m \in {x, NextCopy({})} |-> {}]
    /\ tasks = <<>> /\ events = 0 /\ exited = {}

NextRelay ==
    \/ React
    \/ Unreact
    \/ \E h \in DOMAIN tasks : ProcessEnter(h)
    \/ \E h \in DOMAIN tasks : KarmaFound(h)
    \/ \E h \in DOMAIN tasks : KarmaNotFound(h)
    \/ \E h \in DOMAIN tasks : ProxyEnter(h)
    \/ \E h \in DOMAIN tasks : ProxyCheck(h)

SpecRelay == InitRelay /\ [][NextRelay]_vars

\* ------------------------------------------------- karma relay: claims
Copies(m) == {r.starboard_message_id : r \in RowsOf(m)}
Group(m) == {m} \cup Copies(m)
Reposted == {m \in DOMAIN reactions : m \in SourceMessages /\ Copies(m) # {}}

\* a member's accumulator: what is stored plus what is still cached
Credit(field, user_id) ==
    LET key == get_cache_key(TheGuild, user_id)
    IN  Stored(field, key) + Get(Cache(field), key) + Get(Saving(field), key)

\* every accumulator holds n times what one reaction e of u on post m gives
Awarded(m, u, e, n) ==
    \A f \in Fields, k \in Users :
        Credit(f, k) = n * Amount(Touched(TheGuild, AuthorOf(m), u,
                                          get_emoji_value(TheGuild, e), 1),
                                  f, get_cache_key(TheGuild, k))

NotFound(m) == \E kind \in {"karma_add", "karma_remove"} :
                  <<m, kind, "listener", "notfound">> \in exited

\* C6: a member other than the author has added a valued reaction to a
\* reposted source message and then the same reaction to its copy, the
\* second add was dropped as a duplicate and every handler has returned:
\* the author's value and the reactor's given or taken hold one emoji value
AwardedOnceAcrossCopy ==
    \A m \in Reposted : \A c \in Copies(m), u \in Members, e \in Emojis :
        (/\ karma_loaded /\ u # AuthorOf(m) /\ get_emoji_value(TheGuild, e) # 0
         /\ events = 2 /\ tasks = <<>>
         /\ reactions[m] = {<<u, e>>} /\ reactions[c] = {<<u, e>>}
         /\ <<m, "proxy_add", "listener", "duplicate">> \in exited
         /\ ~NotFound(m))
        => Awarded(m, u, e, 1)

\* the karma of the members that have a reaction on a message of the group
Positive(m) ==
    \A u \in Members, e \in Emojis :
        (\A x \in Group(m) : reactions[x] \subseteq {<<u, e>>})
        => LET v == get_emoji_value(TheGuild, e)
           IN  /\ (IF v > 0 THEN 1 ELSE -1) * Credit("value", AuthorOf(m)) >= 0
               /\ Credit("given", u) >= 0 /\ Credit("taken", u) >= 0

\* C7: with the same valued reaction of one member on a source message and
\* on its copy the karma has been awarded once; while the two reactions are
\* removed, in either order, the karma of that reaction never drops below
\* zero; when both are removed it is zero
RemovalNeverNegative ==
    \A m \in Reposted :
        /\ \A u \in Members, e \in Emojis :
              (/\ karma_loaded /\ u # AuthorOf(m) /\ events = 2 /\ tasks = <<>>
               /\ \A x \in Group(m) : reactions[x] = {<<u, e>>}
               /\ ~NotFound(m))
              => Awarded(m, u, e, 1)
        /\ Positive(m)
        /\ (/\ tasks = <<>> /\ events >= 2
            /\ \A x \in Group(m) : reactions[x] = {})
           => \A f \in Fields, k \in Users : Credit(f, k) = 0

\* C8: one member has added the same valued reaction to several messages of
\* the group, in any order and with the handlers interleaved in any way;
\* once the handlers have returned the karma of that reaction has been
\* assigned exactly once
AssignedExactlyOnce ==
    \A m \in Reposted, u \in Members, e \in Emojis :
        (/\ karma_loaded /\ u # AuthorOf(m) /\ get_emoji_value(TheGuild, e) # 0
         /\ tasks = <<>> /\ events >= 2
         /\ \A x \in Group(m) : reactions[x] \subseteq {<<u, e>>}
         /\ Cardinality({x \in Group(m) : <<u, e>> \in reactions[x]}) = events
         /\ ~NotFound(m))
        => Awarded(m, u, e, 1)

\* the handler h of a reaction of the author of the post on a message of
\* their own post
OwnReaction(h) ==
    /\ tasks[h].kind # "repost"
    /\ tasks[h].user_id = AuthorOf(LogicalPost(tasks[h].message_id))

RelayedOnce ==
    \A m \in Reposted : \A c \in Copies(m), u \in Members, e \in Emojis :
        (/\ karma_loaded /\ u # AuthorOf(m) /\ get_emoji_value(TheGuild, e) > 0
         /\ events = 1 /\ tasks = <<>>
         /\ reactions[c] = {<<u, e>>} /\ reactions[m] = {}
         /\ <<m, "proxy_add", "listener", "relayed">> \in exited
         /\ ~NotFound(m))
        => /\ Credit("value", AuthorOf(m)) = get_emoji_value(TheGuild, e)
           /\ Credit("given", u) = get_emoji_value(TheGuild, e)

\* the other messages of the related-message group of message x
OthersOf(x) == UNION {Group(m) : m \in {s \in Reposted : x \in Group(s)}} \ {x}

SourceReactionProxied ==
    \A m \in Reposted :
        (/\ karma_loaded /\ events = 1 /\ tasks = <<>>
         /\ reactions[m] # {}
         /\ \A c \in Copies(m) : reactions[c] = {})
        => \E how \in {"duplicate", "self", "novalue", "relayed"} :
              <<m, "proxy_add", "listener", how>> \in exited

\* C12: every handler that has put a message id into the in-flight set takes
\* it out again before it ends, whichever way it ends; when no repost handler
\* is running the in-flight set is empty
MarkerAlwaysRemoved ==
    (\A h \in DOMAIN tasks : tasks[h].kind # "repost") => reaction_processing = <<>>

\* number of members that have put the emoji on the fetched message
TypeCount(fetched, e) == Cardinality({u \in Members : <<u, e>> \in fetched})

SomeTypeQualifies(fetched, limit) ==
    \E e \in Emojis :
        /\ TypeCount(fetched, e) >= limit
        /\ karma_loaded => get_emoji_value(TheGuild, e) > 0

SendFailureLeavesUnposted ==
    [][\A h \in DOMAIN tasks :
          LET m == tasks[h].message_id
          IN  /\ (/\ At(h, "repost", "send")
                  /\ Len(tasks') = Len(tasks) /\ tasks'[h].pc = "unsent")
                 => posted' = posted /\ sb_messages' = sb_messages
              /\ At(h, "repost", "unsent")
                 => /\ RowsOf(m) = {} /\ Primaries(m) = {}
                    /\ tasks' = Dropped(tasks, h)
                         => /\ ~InList(reaction_processing', m)
                            /\ sb_messages' = sb_messages /\ posted' = posted
                            /\ <<m, "repost", tasks[h].via, "unsent">> \in exited']_vars

\* the send failed for one reaction-add event, and a later reaction-add event
\* on the same message was evaluated and reposted it
SendFailureLeavesUnpostedWitness ==
    \E m \in SourceMessages :
        /\ <<m, "repost", "listener", "unsent">> \in exited
        /\ <<m, "repost", "listener", "sent">> \in exited
        /\ Cardinality(Primaries(m)) = 1 /\ RowsOf(m) # {}
        /\ tasks = <<>> /\ reaction_processing = <<>>

\* ------------------------------------------------------ the periodic timer

\* tasks.loop(seconds=30.0) calls karma_cache_loop again and again while the
\* loop task lives, and _karma_cache_save is a plain function that runs its
\* three for loops to the end once it has started
FairCache ==
    /\ WF_vars(KarmaCacheSave)
    /\ WF_vars(SaveValue)
    /\ WF_vars(SaveGiven)
    /\ WF_vars(SaveTaken)

SpecCacheFair == InitCache /\ [][NextCache]_vars /\ FairCache

\* nothing waits in an accumulator or in a running flush
Quiescent ==
    /\ save_pc = "idle"
    /\ value_cache = EmptyDict /\ given_cache = EmptyDict /\ taken_cache = EmptyDict

AllPersisted == \A f \in Fields, k \in Keys : Stored(f, k) = applied[f][k]

\* C14: with a fair flush timer and a store that does not fail, every applied
\* delta is eventually persisted: a quiescent point is reached again and
\* again, and at every quiescent point the store total of each key and field
\* is the sum of all deltas applied to it, each counted once
EventuallyPersisted ==
    /\ [](Quiescent => AllPersisted)
    /\ []<>Quiescent

\* two calls on one key, one of them while a flush was running, persisted by
\* different flushes, and everything is in the store
EventuallyPersistedWitness ==
    /\ Quiescent /\ AllPersisted
    /\ calls = MaxCalls /\ flushes = MaxFlushes /\ late_seen
    /\ \E k \in Keys : store_sum["value"][k] # 0 /\ Stored("value", k) # store_sum["value"][k]

\* ------------------------------------------------------- unload and shutdown

\* the Karma cog is removed from the bot: its listeners and commands go, and
\* bot.get_cog("Karma") answers None from now on. The class defines no
\* cog_unload, so nothing cancels karma_cache_loop
KarmaUnload ==
    /\ karma_loaded
    /\ karma_loaded' = FALSE
    /\ UNCHANGED <<karma_vars, hist_vars, loop_vars, msg_vars, relayed, sb_channels, source_channels,
                   starboard_channels, sb_messages, reaction_processing, reactions,
                   posted, tasks, events, exited>>

\* the loop task is cancelled as the event loop closes, after which no
\* listener runs: karma_cache_loop_after finds is_being_cancelled() and calls
\* _karma_cache_save once more
LoopCancelled ==
    /\ loop = "running"
    /\ save_pc = "idle"
    /\ Snapshot
    /\ save_pc' = Phase(save_value', save_given', save_taken')
    /\ loop' = IF save_pc' = "idle" THEN "stopped" ELSE "final"
    /\ flushes' = IF flushes < MaxFlushes THEN flushes + 1 ELSE flushes
    /\ snap_count' = win_count /\ snap_sum' = win_sum
    /\ win_count' = ZeroTable /\ win_sum' = ZeroTable
    /\ store_calls' = ZeroTable /\ store_sum' = ZeroTable
    /\ late' = ZeroTable
    /\ karma_loaded' = FALSE
    /\ UNCHANGED <<members, calls, applied, late_seen, lost, msg_vars, relayed, sb_channels,
                   source_channels, starboard_channels, sb_messages,
                   reaction_processing, reactions, posted, tasks, events, exited>>

NextUnload ==
    \/ ReactionAdded
    \/ ReactionRemoved
    \/ KarmaCacheSave
    \/ SaveValue
    \/ SaveGiven
    \/ SaveTaken
    \/ KarmaUnload
    \/ LoopCancelled

SpecUnload == InitCache /\ [][NextUnload]_vars

\* C15: once the plugin is unloaded its final flush has been started and no
\* periodic flush is scheduled any more, and when the loop has stopped every
\* delta applied before is in the store
FinalFlushOnUnload ==
    /\ ~karma_loaded => loop \in {"final", "stopped"}
    /\ loop = "stopped" => Quiescent /\ AllPersisted


\* a store call of _karma_cache_save raises (KarmaMember.get_or_add or
\* member.save()): no line of 59-81 catches it, so the for loops end there,
\* the local copies are dropped with the frame, and the exception leaves
\* karma_cache_loop, which ends the loop task
SaveRaises(field, key) ==
    /\ save_pc = field
    /\ key \in DOMAIN Saving(field)
    /\ members' \in {members, get_or_add(members, key)}
    /\ save_value' = EmptyDict /\ save_given' = EmptyDict /\ save_taken' = EmptyDict
    /\ save_pc' = "idle"
    /\ loop' = "failed"
    /\ lost' = Bump(lost, field, key, Saving(field)[key])
    /\ UNCHANGED <<value_cache, given_cache, taken_cache, hist_vars, star_vars, msg_vars, relayed>>

StoreRaises == \E field \in Fields, key \in Keys : SaveRaises(field, key)

NextStore ==
    \/ ReactionAdded
    \/ ReactionRemoved
    \/ KarmaCacheSave
    \/ SaveValue
    \/ SaveGiven
    \/ SaveTaken
    \/ StoreRaises

SpecStore == InitCache /\ [][NextStore]_vars

\* C13: when the store raises on one entry of a flush, every other entry of
\* the snapshot is still written and only the failing entry's delta is lost:
\* every applied delta is in the store, in the unwritten rest of a running
\* flush, in the accumulator, or is the delta of an entry whose call raised
OnlyFailingEntryLost ==
    \A f \in Fields, k \in Keys :
        Stored(f, k) + Get(Saving(f), k) + Get(Cache(f), k) + lost[f][k] = applied[f][k]

\* ------------------------------------------- Messages: the lock and the bulker
MaxMessages == 2       \* messages seen by on_message in a run

\* self.lock.locked() read as never held
NeverLocked == FALSE

\* self.lock.locked(), line 56
locked == lock_held

\* asyncio.Lock.acquire returns at once: not held and nobody waits
CanTake == ~lock_held /\ lock_waiters = <<>>

\* the tasks suspended inside `async with self.lock`
Inside == {t \in Syncs : mpc[t] \in {"hold", "saved"}}

MsgFrame == UNCHANGED <<karma_vars, hist_vars, star_vars, loop_vars, relayed, row_vars,
                        points_vars>>

\* _save_cache(): the rows of positive_cache go to the store, the cache is
\* replaced by an empty frame (lines 76-101)
SaveCache(t) ==
    /\ msg_stored' = msg_stored + positive_cache
    /\ positive_cache' = 0
    /\ overlap' = (overlap \/ Inside \ {t} # {})

\* on_message appends one row to positive_cache
OnMessage ==
    /\ positive_cache + msg_stored < MaxMessages
    /\ positive_cache' = positive_cache + 1
    /\ UNCHANGED <<msg_stored, lock_held, lock_waiters, lock_woken, mpc, cancelled,
                   tick_queued, overlap, skipped, final_waited>>
    /\ MsgFrame

\* one iteration of bulker: skipped when the lock is held; otherwise
\* `async with self.lock: self._save_cache()`, which runs without a suspension
\* when the lock can be taken at once and waits in the lock's queue when a
\* woken waiter has not taken it yet
BulkerTick ==
    /\ mpc["bulker"] = "sleep" /\ ~cancelled
    /\ IF locked
         THEN /\ skipped' = TRUE
              /\ UNCHANGED <<positive_cache, msg_stored, lock_waiters, mpc,
                             tick_queued, overlap>>
         ELSE IF CanTake
           THEN /\ SaveCache("bulker")
                /\ UNCHANGED <<lock_waiters, mpc, tick_queued, skipped>>
           ELSE /\ lock_waiters' = Append(lock_waiters, "bulker")
                /\ mpc' = [mpc EXCEPT !["bulker"] = "tick_wait"]
                /\ tick_queued' = (tick_queued \/ lock_held)
                /\ UNCHANGED <<positive_cache, msg_stored, overlap, skipped>>
    /\ UNCHANGED <<lock_held, lock_woken, cancelled, final_waited>>
    /\ MsgFrame

\* the bulker, woken as first waiter, takes the lock, saves and releases
TickResume ==
    /\ mpc["bulker"] = "tick_wait" /\ ~cancelled
    /\ lock_waiters # <<>> /\ Head(lock_waiters) = "bulker" /\ lock_woken
    /\ SaveCache("bulker")
    /\ lock_waiters' = Tail(lock_waiters)
    /\ lock_held' = FALSE
    /\ lock_woken' = (Tail(lock_waiters) # <<>>)
    /\ mpc' = [mpc EXCEPT !["bulker"] = "sleep"]
    /\ UNCHANGED <<cancelled, tick_queued, skipped, final_waited>>
    /\ MsgFrame

\* cog_unload: self.bulker.cancel()
CogUnload ==
    /\ ~cancelled
    /\ mpc["bulker"] # "stopped"
    /\ cancelled' = TRUE
    /\ UNCHANGED <<positive_cache, msg_stored, lock_held, lock_waiters, lock_woken,
                   mpc, tick_queued, overlap, skipped, final_waited>>
    /\ MsgFrame

\* the cancelled loop task runs next: CancelledError leaves its await (a
\* waiter leaves the lock's queue and passes a wake-up on), and after_bulker
\* enters `async with self.lock`, saving at once or waiting for the lock
AfterBulker ==
    /\ cancelled
    /\ mpc["bulker"] \in {"sleep", "tick_wait"}
    /\ LET rest == SelectSeq(lock_waiters, LAMBDA t : t # "bulker")
           first == lock_waiters # <<>> /\ Head(lock_waiters) = "bulker"
           woken == IF first THEN lock_woken /\ ~lock_held /\ rest # <<>>
                             ELSE lock_woken
       IN  IF ~lock_held /\ rest = <<>>
             THEN /\ SaveCache("bulker")
                  /\ lock_waiters' = rest
                  /\ lock_woken' = FALSE
                  /\ mpc' = [mpc EXCEPT !["bulker"] = "stopped"]
                  /\ UNCHANGED final_waited
             ELSE /\ lock_waiters' = Append(rest, "bulker")
                  /\ lock_woken' = woken
                  /\ mpc' = [mpc EXCEPT !["bulker"] = "final_wait"]
                  /\ final_waited' = TRUE
                  /\ UNCHANGED <<positive_cache, msg_stored, overlap>>
    /\ UNCHANGED <<lock_held, cancelled, tick_queued, skipped>>
    /\ MsgFrame

\* after_bulker, woken as first waiter, takes the lock, saves and releases
FinalResume ==
    /\ mpc["bulker"] = "final_wait"
    /\ lock_waiters # <<>> /\ Head(lock_waiters) = "bulker" /\ lock_woken
    /\ SaveCache("bulker")
    /\ lock_waiters' = Tail(lock_waiters)
    /\ lock_held' = FALSE
    /\ lock_woken' = (Tail(lock_waiters) # <<>>)
    /\ mpc' = [mpc EXCEPT !["bulker"] = "stopped"]
    /\ UNCHANGED <<cancelled, tick_queued, skipped, final_waited>>
    /\ MsgFrame

\* on_ready / on_guild_join reach `async with self.lock`
SyncEnter(t) ==
    /\ mpc[t] = "idle"
    /\ IF CanTake
         THEN /\ lock_held' = TRUE
              /\ mpc' = [mpc EXCEPT ![t] = "hold"]
              /\ UNCHANGED lock_waiters
         ELSE /\ lock_waiters' = Append(lock_waiters, t)
              /\ mpc' = [mpc EXCEPT ![t] = "wait"]
              /\ UNCHANGED lock_held
    /\ UNCHANGED <<positive_cache, msg_stored, lock_woken, cancelled, tick_queued,
                   overlap, skipped, final_waited>>
    /\ MsgFrame

\* a woken sync listener takes the lock
SyncResume(t) ==
    /\ mpc[t] = "wait"
    /\ lock_waiters # <<>> /\ Head(lock_waiters) = t /\ lock_woken
    /\ lock_waiters' = Tail(lock_waiters)
    /\ lock_held' = TRUE
    /\ lock_woken' = FALSE
    /\ mpc' = [mpc EXCEPT ![t] = "hold"]
    /\ UNCHANGED <<positive_cache, msg_stored, cancelled, tick_queued, overlap,
                   skipped, final_waited>>
    /\ MsgFrame

\* _sync_channel after channel.history answered with one message: sync_cache
\* becomes positive_cache plus the fetched rows and _save_cache(sync=True)
\* stores all of it; positive_cache keeps its rows
SyncSave(t) ==
    /\ mpc[t] = "hold"
    /\ msg_stored' = msg_stored + positive_cache + 1
    /\ overlap' = (overlap \/ Inside \ {t} # {})
    /\ mpc' = [mpc EXCEPT ![t] = "saved"]
    /\ UNCHANGED <<positive_cache, lock_held, lock_waiters, lock_woken, cancelled,
                   tick_queued, skipped, final_waited>>
    /\ MsgFrame

\* the listener leaves `async with self.lock`: Lock.release
SyncLeave(t) ==
    /\ mpc[t] \in {"hold", "saved"}
    /\ lock_held' = FALSE
    /\ lock_woken' = (lock_waiters # <<>>)
    /\ mpc' = [mpc EXCEPT ![t] = "done"]
    /\ UNCHANGED <<positive_cache, msg_stored, lock_waiters, cancelled, tick_queued,
                   overlap, skipped, final_waited>>
    /\ MsgFrame

NextBulker ==
    \/ OnMessage
    \/ BulkerTick
    \/ TickResume
    \/ CogUnload
    \/ AfterBulker
    \/ FinalResume
    \/ \E t \in Syncs : SyncEnter(t)
    \/ \E t \in Syncs : SyncResume(t)
    \/ \E t \in Syncs : SyncSave(t)
    \/ \E t \in Syncs : SyncLeave(t)

SpecBulker == InitCache /\ [][NextBulker]_vars

RowsFor(id) == {i \in 1..Len(sb_messages) : sb_messages[i].starboard_message_id = id}

\* the message was sent by a handler that is still inside _send_messages
\* (waiting for the secondary send) and has recorded nothing yet
AwaitingRecord(id) ==
    \E h \in 1..Len(tasks) : tasks[h].pc = "second" /\ InList(tasks[h].sent, id)

\* C21: every message sent to the starboard channel has exactly one
\* StarboardMessage row once _send_messages has returned, the row names the
\* source message it was sent for (so primary and secondary share the
\* source_message_id), every row belongs to a message sent, and no two rows
\* share the pair (source_message_id, starboard_message_id).
OneRecordPerSent ==
    /\ \A p \in posted :
          IF AwaitingRecord(p.id)
            THEN RowsFor(p.id) = {}
            ELSE /\ Cardinality(RowsFor(p.id)) = 1
                 /\ \A i \in RowsFor(p.id) : sb_messages[i].source_message_id = p.source
    /\ \A i \in 1..Len(sb_messages) :
          \E p \in posted : /\ p.id = sb_messages[i].starboard_message_id
                            /\ p.source = sb_messages[i].source_message_id
    /\ \A i \in 1..Len(sb_messages) : \A j \in 1..Len(sb_messages) :
          (/\ sb_messages[i].source_message_id = sb_messages[j].source_message_id
           /\ sb_messages[i].starboard_message_id = sb_messages[j].starboard_message_id)
          => i = j

\* a repost with a primary and a secondary message, both recorded
OneRecordPerSentWitness ==
    \E p \in posted : \E q \in posted :
        /\ p.kind = "primary" /\ q.kind = "secondary" /\ p.source = q.source
        /\ Cardinality(RowsFor(p.id)) = 1 /\ Cardinality(RowsFor(q.id)) = 1
        /\ Len(sb_messages) = 2
        /\ Exited(p.source, "sent")

\* ------------------------------------------- configuration and records

\* StarboardChannel.check_unique: the channel is neither a source nor a
\* starboard channel of a row of the guild
check_unique(guild_id, channel_id) ==
    ~\E c \in sb_channels :
        /\ c.guild_id = guild_id
        /\ \/ c.source_channel_id = channel_id
           \/ c.starboard_channel_id = channel_id

\* StarboardChannel.set: the row of the pair is created or its limit updated
StarboardChannel_set(guild_id, source_channel_id, starboard_channel_id, limit) ==
    {c \in sb_channels : ~(/\ c.guild_id = guild_id
                           /\ c.source_channel_id = source_channel_id
                           /\ c.starboard_channel_id = starboard_channel_id)}
    \cup {[guild_id |-> guild_id, source_channel_id |-> source_channel_id,
           starboard_channel_id |-> starboard_channel_id, limit |-> limit]}

\* starboard_admin_set without the test of the limit (lines 138-142)
AdminSetAnyLimit(source, starboard, limit) ==
    /\ events < MaxEvents
    /\ IF \/ ~check_unique(TheGuild, source)
          \/ StarboardChannel_get(TheGuild, starboard) # {}
         THEN UNCHANGED <<sb_channels, source_channels, starboard_channels>>
         ELSE /\ sb_channels' = StarboardChannel_set(TheGuild, source, starboard, limit)
              /\ source_channels' = Append(source_channels, source)
              /\ starboard_channels' = Append(starboard_channels, starboard)
    /\ events' = events + 1
    /\ UNCHANGED <<karma_vars, hist_vars, loop_vars, msg_vars, relayed, karma_loaded,
                   sb_messages, reaction_processing, reactions, posted, tasks, exited>>

\* starboard_admin_set lines 138-168: the three checks, the row and the two
\* cached lists; the replies that follow change nothing
AdminSet(source, starboard, limit) ==
    /\ events < MaxEvents
    /\ IF \/ limit <= 0
          \/ ~check_unique(TheGuild, source)
          \/ StarboardChannel_get(TheGuild, starboard) # {}
         THEN UNCHANGED <<sb_channels, source_channels, starboard_channels>>
         ELSE /\ sb_channels' = StarboardChannel_set(TheGuild, source, starboard, limit)
              /\ source_channels' = Append(source_channels, source)
              /\ starboard_channels' = Append(starboard_channels, starboard)
    /\ events' = events + 1
    /\ UNCHANGED <<karma_vars, hist_vars, loop_vars, msg_vars, relayed, karma_loaded,
                   sb_messages, reaction_processing, reactions, posted, tasks, exited>>

\* the set command for the pair of the repost scenarios
SetSource == \E l \in Limits : AdminSet(SourceChannel, StarboardChannelId, l)

\* a member removes a reaction of theirs from a source message; the gateway
\* delivers the event to Starboard.on_raw_reaction_remove
RemoveReaction ==
    /\ events < MaxEvents
    /\ \E u \in Members, m \in DOMAIN reactions, e \in Emojis :
          /\ <<u, e>> \in reactions[m]
          /\ reactions' = [reactions EXCEPT ![m] = @ \ {<<u, e>>}]
          /\ tasks' = tasks \o on_raw_reaction_remove(ChannelOf(m), m, u, e)
    /\ events' = events + 1
    /\ UNCHANGED <<karma_vars, hist_vars, loop_vars, msg_vars, relayed, sb_channels, source_channels,
                   starboard_channels, karma_loaded, sb_messages,
                   reaction_processing, posted, exited>>

\* the repost machine with reaction removals and the set command; an event
\* or command arrives while at most MaxPending handlers are still running
NextLife ==
    \/ Len(tasks) <= MaxPending /\ AddReaction
    \/ Len(tasks) <= MaxPending /\ RemoveReaction
    \/ Len(tasks) <= MaxPending /\ History
    \/ Len(tasks) <= MaxPending /\ Unset
    \/ Len(tasks) <= MaxPending /\ SetSource
    \/ \E h \in DOMAIN tasks : UnsetRemove(h)
    \/ \E h \in DOMAIN tasks : ProcessEnter(h)
    \/ \E h \in DOMAIN tasks : ProcessFetch(h)
    \/ \E h \in DOMAIN tasks : ProcessFetchFailed(h)
    \/ \E h \in DOMAIN tasks : ProcessEval(h)
    \/ \E h \in DOMAIN tasks : ProcessSend(h)
    \/ \E h \in DOMAIN tasks : ProcessSendFailed(h)
    \/ \E h \in DOMAIN tasks : ProcessSecondary(h)
    \/ \E h \in DOMAIN tasks : ProcessLeave(h)

SpecLife == InitRepost /\ [][NextLife]_vars

\* C22: no step of the starboard (reaction add, reaction remove, a count
\* falling below the limit, set or unset of the configuration, any step of a
\* repost handler) changes or deletes an existing StarboardMessage row: the
\* table only grows at its end, so a reposted source message stays reposted.
RecordsAppendOnly ==
    [][/\ Len(sb_messages') >= Len(sb_messages)
       /\ \A i \in 1..Len(sb_messages) : sb_messages'[i] = sb_messages[i]
       /\ \A m \in SourceMessages :
             IsReposted(TheGuild, m) => IsReposted(TheGuild, m)']_vars

\* a reposted message has lost all its reactions, and the configuration has
\* been unset and set again; the row is still there
RecordsAppendOnlyWitness ==
    \E m \in SourceMessages :
        /\ IsReposted(TheGuild, m)
        /\ m \in DOMAIN reactions /\ reactions[m] = {}
        /\ <<0, "unset", "command", "unset">> \in exited
        /\ StarboardChannel_get(TheGuild, SourceChannel) # {}
        /\ InList(source_channels, SourceChannel)

\* ------------------------------------------------ accumulator arithmetic

\* the dict new is the dict old with n added to the entry of key (created
\* at 0 if absent) and every other entry as it was
OnlyBumped(old, new, key, n) ==
    /\ DOMAIN new = DOMAIN old \cup {key}
    /\ \A k \in DOMAIN new : new[k] = Get(old, k) + (IF k = key THEN n ELSE 0)

Abs(n) == IF n < 0 THEN -n ELSE n

\* what a call with value v and direction sign (1 added, -1 removed) does
CallEffect(g, a, r, v, sign) ==
    /\ OnlyBumped(value_cache, value_cache', get_cache_key(g, a), sign * v)
    /\ IF v > 0
         THEN /\ OnlyBumped(given_cache, given_cache', get_cache_key(g, r), sign * v)
              /\ taken_cache' = taken_cache
         ELSE /\ OnlyBumped(taken_cache, taken_cache', get_cache_key(g, r), sign * Abs(v))
              /\ given_cache' = given_cache
    /\ members' = members

\* C23: reaction_added with a non-zero value v adds v to the author's entry
\* of the value accumulator and v to the reactor's given entry (v > 0) or |v|
\* to the reactor's taken entry (v < 0); reaction_removed adds the opposite
\* amounts; no other entry of an accumulator and no stored total changes.
CallsApplyValue ==
    [][\A g \in Guilds, a \in Users, r \in Users, v \in EmojiValues :
          /\ (calls' = calls + 1 /\ reaction_added(g, a, r, v))
                => CallEffect(g, a, r, v, 1)
          /\ (calls' = calls + 1 /\ reaction_removed(g, a, r, v))
                => CallEffect(g, a, r, v, -1)]_vars

\* a negative reaction has been removed and a positive one added: one
\* reactor's taken entry is below zero and a given entry holds the value
CallsApplyValueWitness ==
    /\ calls = 2
    /\ \E k \in Keys : Get(taken_cache, k) = -1
    /\ \E k \in Keys : Get(given_cache, k) = 2
    /\ \E k \in Keys : Get(value_cache, k) = 3

\* pending plus persisted total of a field for a key
Total(f, k) == Stored(f, k) + Get(Cache(f), k) + Get(Saving(f), k)

\* what one reaction_added(g, a, r, v) is to add to the total of (f, k)
Delta(g, a, r, v, f, k) ==
    IF f = "value" THEN (IF k = get_cache_key(g, a) THEN v ELSE 0)
    ELSE IF f = "given" THEN (IF k = get_cache_key(g, r) /\ v > 0 THEN v ELSE 0)
    ELSE (IF k = get_cache_key(g, r) /\ v < 0 THEN Abs(v) ELSE 0)

\* C24: reaction_removed is the inverse of reaction_added: with the same
\* arguments the one moves every total (pending plus persisted) by exactly
\* the negative of what the other moves it by, and no step of a flush moves
\* a total, so one call of each, in either order and with any calls or
\* flushes in between, leaves the totals of all three fields as they were.
RemovedInvertsAdded ==
    [][\A f \in Fields, k \in Keys :
          /\ \A g \in Guilds, a \in Users, r \in Users, v \in EmojiValues :
                /\ (calls' = calls + 1 /\ reaction_added(g, a, r, v))
                      => Total(f, k)' = Total(f, k) + Delta(g, a, r, v, f, k)
                /\ (calls' = calls + 1 /\ reaction_removed(g, a, r, v))
                      => Total(f, k)' = Total(f, k) - Delta(g, a, r, v, f, k)
          /\ calls' = calls => Total(f, k)' = Total(f, k)]_vars

\* an add has been flushed to the store and the matching remove is pending:
\* every total is back at zero
RemovedInvertsAddedWitness ==
    /\ calls = 2
    /\ \A f \in Fields, k \in Keys : Total(f, k) = 0
    /\ \E k \in Keys : Stored("value", k) # 0
    /\ \E k \in Keys : Stored("taken", k) # 0

\* ------------------------------------------------- emoji without value

\* an emoji that has no row in the emoji tables
PlainEmoji == "plain"

\* a member adds the reaction PlainEmoji to a message of the group
ReactPlain ==
    /\ events < MaxReactions
    /\ Len(tasks) <= MaxPending
    /\ \E u \in Members, m \in DOMAIN reactions :
          /\ <<u, PlainEmoji>> \notin reactions[m]
          /\ reactions' = [reactions EXCEPT ![m] = @ \cup {<<u, PlainEmoji>>}]
          /\ tasks' = tasks \o Karma_on_raw_reaction(TRUE, m, u, PlainEmoji)
                            \o on_raw_reaction_add(ChannelOf(m), m, u, PlainEmoji)
    /\ events' = events + 1
    /\ UNCHANGED <<karma_vars, hist_vars, loop_vars, msg_vars, relayed, sb_channels, source_channels,
                   starboard_channels, karma_loaded, sb_messages,
                   reaction_processing, posted, exited>>

\* a member removes their reaction PlainEmoji
UnreactPlain ==
    /\ events < MaxReactions
    /\ Len(tasks) <= MaxPending
    /\ \E u \in Members, m \in DOMAIN reactions :
          /\ <<u, PlainEmoji>> \in reactions[m]
          /\ reactions' = [reactions EXCEPT ![m] = @ \ {<<u, PlainEmoji>>}]
          /\ tasks' = tasks \o Karma_on_raw_reaction(FALSE, m, u, PlainEmoji)
                            \o on_raw_reaction_remove(ChannelOf(m), m, u, PlainEmoji)
    /\ events' = events + 1
    /\ UNCHANGED <<karma_vars, hist_vars, loop_vars, msg_vars, relayed, sb_channels, source_channels,
                   starboard_channels, karma_loaded, sb_messages,
                   reaction_processing, posted, exited>>

\* reactions without value, and valued reactions arriving while no handler
\* is running
NextPlain ==
    \/ ReactPlain
    \/ UnreactPlain
    \/ tasks = <<>> /\ React
    \/ tasks = <<>> /\ Unreact
    \/ \E h \in DOMAIN tasks : ProcessEnter(h)
    \/ \E h \in DOMAIN tasks : KarmaFound(h)
    \/ \E h \in DOMAIN tasks : KarmaNotFound(h)
    \/ \E h \in DOMAIN tasks : ProxyEnter(h)
    \/ \E h \in DOMAIN tasks : ProxyCheck(h)

SpecPlain == InitRelay /\ [][NextPlain]_vars

RelayKinds == {"karma_add", "karma_remove", "proxy_add", "proxy_remove"}

\* C25: a handler of the Karma listener or of the starboard proxy whose
\* reaction has an emoji without karma value returns without a relay call:
\* no accumulator entry is created or changed, no call is recorded, and the
\* handler does not end in the call.
ZeroValueNoRelay ==
    [][\A h \in 1..Len(tasks) :
          (/\ tasks[h].kind \in RelayKinds
           /\ tasks[h].emoji = PlainEmoji
           /\ tasks' = Dropped(tasks, h))
          => /\ value_cache' = value_cache
             /\ given_cache' = given_cache
             /\ taken_cache' = taken_cache
             /\ relayed' = relayed
             /\ \A x \in exited' \ exited : x[4] \notin {"relayed", "raised"}]_vars

\* reactions without value were handled by the Karma listener and, on the
\* copy and from another member than the author, by the proxy after its
\* duplicate check
ZeroValueNoRelayWitness ==
    /\ \E m \in DOMAIN reactions : <<m, "karma_add", "listener", "novalue">> \in exited
    /\ \E m \in DOMAIN reactions : <<m, "proxy_add", "listener", "novalue">> \in exited
    /\ \E m \in DOMAIN reactions : <<m, "proxy_remove", "listener", "novalue">> \in exited

\* ------------------------------------------------ channel configuration

OtherChannel == "other"
Channels == {SourceChannel, StarboardChannelId, OtherChannel}
LimitInputs == {0} \cup Limits

\* the unset command, waiting in guild_log.info with the row it has read
NewUnset(channel) ==
    [kind |-> "unset", via |-> "command", pc |-> "start", message_id |-> 0,
     user_id |-> NoUser, emoji |-> NoEmoji, fetched |-> {}, sent |-> <<>>,
     row |-> 0, channel |-> channel]

\* starboard_admin_set with any two channels of the guild and any limit
ConfigSet == \E source \in Channels, starboard \in Channels, limit \in LimitInputs :
    AdminSet(source, starboard, limit)

\* another guild served by the same bot, and its two channels
OtherGuild == 2
ForeignSource == "foreign"
ForeignStarboard == "foreign_board"

\* what a moderator can give to the unset command: a channel of the guild, or
\* any channel id typed as source_id
SourceIds == Channels \cup {ForeignSource}

\* starboard_admin_unset lines 203-248 for any channel: without a row the
\* command only replies; list.remove raises ValueError for an id that is not
\* in the list, and the command ends there
ConfigUnset ==
    /\ events < MaxEvents
    /\ \E source \in SourceIds :
          LET found == StarboardChannel_get(TheGuild, source)
              left(how) == exited' = exited \cup {<<0, "unset", "command", how>>}
          IN  IF found = {}
                THEN /\ UNCHANGED <<source_channels, starboard_channels, tasks>>
                     /\ left("norow")
              ELSE \E c \in found :
                IF ~InList(source_channels, c.source_channel_id)
                  THEN /\ UNCHANGED <<source_channels, starboard_channels, tasks>>
                       /\ left("raised")
                ELSE IF ~InList(starboard_channels, c.starboard_channel_id)
                  THEN /\ source_channels' = ListRemove(source_channels, c.source_channel_id)
                       /\ UNCHANGED <<starboard_channels, tasks>>
                       /\ left("raised")
                ELSE /\ source_channels' = ListRemove(source_channels, c.source_channel_id)
                     /\ starboard_channels' =
                            ListRemove(starboard_channels, c.starboard_channel_id)
                     /\ tasks' = Append(tasks, NewUnset(source))
                     /\ UNCHANGED exited
    /\ events' = events + 1
    /\ UNCHANGED <<karma_vars, hist_vars, loop_vars, msg_vars, relayed, sb_channels, karma_loaded, sb_messages,
                   reaction_processing, reactions, posted>>

\* starboard_admin_unset line 250: sb_channel.remove() deletes the row read
ConfigUnsetRemove(h) ==
    /\ Running(h) /\ tasks[h].kind = "unset"
    /\ sb_channels' = {c \in sb_channels : c.source_channel_id # tasks[h].channel}
    /\ Finish(h, "unset")
    /\ UNCHANGED <<karma_vars, hist_vars, loop_vars, msg_vars, relayed, source_channels, starboard_channels,
                   karma_loaded, sb_messages, reaction_processing, reactions,
                   posted, events>>

\* Starboard.__init__ over an empty StarboardChannel table
InitConfig ==
    /\ InitKarma
    /\ sb_channels = {} /\ source_channels = <<>> /\ starboard_channels = <<>>
    /\ karma_loaded = TRUE
    /\ sb_messages = <<>> /\ reaction_processing = <<>>
    /\ reactions = [m \in {} |-> {}] /\ posted = {}
    /\ tasks = <<>> /\ events = 0 /\ exited = {}

NextConfig ==
    \/ ConfigSet
    \/ ConfigUnset
    \/ \E h \in DOMAIN tasks : ConfigUnsetRemove(h)

SpecConfig == InitConfig /\ [][NextConfig]_vars

\* C26: no channel id is at once the source channel of a stored
\* configuration and the starboard channel of one, and no two stored
\* configurations have the same source channel.
ConfigDisjoint ==
    /\ \A c \in sb_channels : \A e \in sb_channels :
          c.source_channel_id # e.starboard_channel_id
    /\ \A c \in sb_channels : \A e \in sb_channels :
          c.source_channel_id = e.source_channel_id => c = e

\* ------------------------------------------------------ escaping exceptions

\* C27: no handler of a reaction event (Karma's listener, the repost handler,
\* the starboard proxy) ends in an exception that escapes to its caller.
NoExceptionEscapes ==
    \A x \in exited : x[4] # "raised"

\* ------------------------------------------------------- failed fetches

\* C28: when the fetch of the repost handler fails, the handler returns in
\* that step: nothing is sent, no StarboardMessage row is written, the id
\* leaves the in-flight set, the message is still not reposted, and no
\* handler is started in its place (only a later event evaluates it again).
FetchFailureDrops ==
    [][\A h \in 1..Len(tasks) : \A m \in SourceMessages :
          (/\ At(h, "repost", "fetch")
           /\ tasks[h].message_id = m
           /\ tasks' = Dropped(tasks, h))
          => /\ posted' = posted
             /\ sb_messages' = sb_messages
             /\ ~IsProcessing(m)'
             /\ ~IsReposted(TheGuild, m)'
             /\ exited' = exited \cup {<<m, "repost", tasks[h].via, "nofetch">>}
             /\ reactions' = reactions /\ events' = events]_vars

\* the fetch of one event failed and the message was left alone until a
\* later event reposted it
FetchFailureDropsWitness ==
    \E m \in SourceMessages :
        /\ Exited(m, "nofetch") /\ Exited(m, "sent")
        /\ Cardinality(Primaries(m)) = 1
        /\ ~IsProcessing(m)
        /\ tasks = <<>>

\* a source message that has been reposted with a secondary message: its two
\* rows, its two copies, no reaction on any of them yet
InitRelated ==
    /\ InitKarma
    /\ LET l == CHOOSE n \in Limits : TRUE IN
          sb_channels = {[guild_id |-> TheGuild, source_channel_id |-> SourceChannel,
                          starboard_channel_id |-> StarboardChannelId, limit |-> l]}
    /\ source_channels = <<SourceChannel>>
    /\ starboard_channels = <<StarboardChannelId>>
    /\ karma_loaded \in BOOLEAN
    /\ reaction_processing = <<>>
    /\ \E x \in {m \in SourceMessages : HasSecondary(m)} :
          LET first == NextCopy({})
              second == NextCopy({first})
          IN  /\ sb_messages = AddRows(<<>>, x, <<first, second>>)
              /\ posted = {[id |-> first, source |-> x, kind |-> "primary"],
                           [id |-> second, source |-> x, kind |-> "secondary"]}
              /\ reactions = [m \in {x, first, second} |-> {}]
    /\ tasks = <<>> /\ events = 0 /\ exited = {}

\* the relay machine with each event arriving after the handlers of the
\* event before it have returned
NextRelated ==
    \/ tasks = <<>> /\ React
    \/ tasks = <<>> /\ Unreact
    \/ \E h \in DOMAIN tasks : ProcessEnter(h)
    \/ \E h \in DOMAIN tasks : KarmaFound(h)
    \/ \E h \in DOMAIN tasks : KarmaNotFound(h)
    \/ \E h \in DOMAIN tasks : ProxyEnter(h)
    \/ \E h \in DOMAIN tasks : ProxyCheck(h)

SpecRelated == InitRelated /\ [][NextRelated]_vars

\* the effect of the event of handler h on the reactions is left aside: what
\* member u has of emoji e on the messages related to the row
HasOnRelated(row, u, e) ==
    {x \in Related(sb_messages[row]) : <<u, e>> \in reactions[x]}

InitPair ==
    /\ InitKarma
    /\ \E l \in Limits :
          sb_channels = {[guild_id |-> TheGuild, source_channel_id |-> SourceChannel,
                          starboard_channel_id |-> StarboardChannelId, limit |-> l]}
    /\ source_channels = <<SourceChannel>>
    /\ starboard_channels = <<StarboardChannelId>>
    /\ karma_loaded = TRUE
    /\ sb_messages = <<>> /\ reaction_processing = <<>>
    /\ reactions = [m \in SourceMessages |-> {}]
    /\ posted = {}
    /\ tasks = <<>> /\ events = 0 /\ exited = {}

\* up to MaxReactions reaction-adds on the two messages; an event arrives
\* while at most MaxPending handlers are still running
NextPair ==
    \/ events < MaxReactions /\ Len(tasks) <= MaxPending /\ AddReaction
    \/ \E h \in DOMAIN tasks : ProcessEnter(h)
    \/ \E h \in DOMAIN tasks : ProcessFetch(h)
    \/ \E h \in DOMAIN tasks : ProcessFetchFailed(h)
    \/ \E h \in DOMAIN tasks : ProcessEval(h)
    \/ \E h \in DOMAIN tasks : ProcessSend(h)
    \/ \E h \in DOMAIN tasks : ProcessSendFailed(h)
    \/ \E h \in DOMAIN tasks : ProcessSecondary(h)
    \/ \E h \in DOMAIN tasks : ProcessLeave(h)

SpecPair == InitPair /\ [][NextPair]_vars

\* C30: the lock covers the check-and-insert only: a handler that runs its
\* check for a message that is neither in the in-flight set nor reposted
\* enters Processing in that step whatever other ids are in the set, and
\* leaves those ids in it, so the handlers of distinct messages wait on
\* their fetches side by side.
LockNotHeldOverFetch ==
    [][\A h \in 1..Len(tasks) : \A m \in SourceMessages :
          (/\ At(h, "repost", "start")
           /\ tasks[h].message_id = m
           /\ ~InList(reaction_processing, m)
           /\ get_all_source(TheGuild, m) = <<>>
           /\ \/ tasks' = Dropped(tasks, h)
              \/ Len(tasks') = Len(tasks) /\ tasks'[h] # tasks[h])
          => /\ Len(tasks') = Len(tasks)
             /\ tasks'[h].pc = "fetch"
             /\ reaction_processing' = Append(reaction_processing, m)]_vars

\* two handlers wait on the fetches of two distinct messages, both ids in
\* the in-flight set
LockNotHeldOverFetchWitness ==
    \E h \in 1..Len(tasks) : \E g \in 1..Len(tasks) :
        /\ tasks[h].pc = "fetch" /\ tasks[g].pc = "fetch"
        /\ tasks[h].message_id # tasks[g].message_id
        /\ InList(reaction_processing, tasks[h].message_id)
        /\ InList(reaction_processing, tasks[g].message_id)
        /\ Len(reaction_processing) = 2

\* ------------------------------------------------- accumulator entries

\* C31: an accumulator has an entry exactly for the keys a call has touched
\* since the last snapshot of a flush; the snapshot leaves the three
\* accumulators without any entry (the flushed keys are removed, not kept
\* at 0).
EntriesOnlySinceSnapshot ==
    \A f \in Fields : DOMAIN Cache(f) = {k \in Keys : win_count[f][k] > 0}

\* after a snapshot that took a key, a call has touched another key of the
\* same accumulator: the flushed key has no entry, the touched one has
EntriesOnlySinceSnapshotWitness ==
    /\ flushes >= 1
    /\ \E f \in Fields : \E k \in Keys : \E j \in Keys :
          /\ snap_count[f][k] > 0 /\ k \notin DOMAIN Cache(f)
          /\ j \in DOMAIN Cache(f)

\* ------------------------------------------------ the set command: claims

\* C32: starboard_admin_set for a source channel that is already configured
\* (with the starboard channel it is configured for, and a limit above 0)
\* leaves the stored configuration of that source channel with the new limit.
SetChangesConfigured ==
    [][\A source \in Channels : \A starboard \in Channels : \A limit \in Limits :
          (/\ source # starboard
           /\ \E c \in StarboardChannel_get(TheGuild, source) :
                  c.starboard_channel_id = starboard
           /\ InList(source_channels, source)
           /\ AdminSet(source, starboard, limit))
          => \E c \in sb_channels' :
                /\ c.source_channel_id = source
                /\ c.starboard_channel_id = starboard
                /\ c.limit = limit]_vars

UsedAsSource(channel) == \E c \in sb_channels : c.source_channel_id = channel
UsedAsStarboard(channel) == \E c \in sb_channels : c.starboard_channel_id = channel

\* the set command is to be rejected
Rejected(source, starboard, limit) ==
    \/ limit <= 0
    \/ UsedAsSource(source) \/ UsedAsStarboard(source)
    \/ UsedAsSource(starboard)

\* C33: a rejected starboard_admin_set (limit <= 0, source already used as
\* source or starboard, starboard already used as source) leaves the stored
\* configurations and the two cached lists as they were, and every stored
\* configuration has a limit of at least 1.
RejectedSetKeepsAll ==
    /\ [](\A c \in sb_channels : c.limit >= 1)
    /\ [][\A source \in Channels : \A starboard \in Channels :
            \A limit \in LimitInputs :
              (Rejected(source, starboard, limit) /\ AdminSet(source, starboard, limit))
              => UNCHANGED <<sb_channels, source_channels, starboard_channels>>]_vars

\* MaxEvents set commands and no unset have run; one was accepted, the
\* others were rejected
RejectedSetKeepsAllWitness ==
    /\ events = MaxEvents /\ tasks = <<>> /\ exited = {}
    /\ Cardinality(sb_channels) = 1
    /\ Len(source_channels) = 1 /\ Len(starboard_channels) = 1

\* StarboardChannel.get_all() without arguments: the rows of every guild
StarboardChannel_get_all == sb_channels

\* the orders in which StarboardChannel.get_all() may return the rows (the
\* query has no ORDER BY)
Orders(rows) ==
    {o \in [1..Cardinality(rows) -> rows] :
        \A i \in DOMAIN o : \A j \in DOMAIN o : o[i] = o[j] => i = j}

\* Starboard.__init__ after a restart of the bot: the handlers that were
\* running are gone, both lists are rebuilt from the stored rows
Restart ==
    /\ events < MaxEvents
    /\ \E o \in Orders(StarboardChannel_get_all) :
          /\ starboard_channels' = [i \in DOMAIN o |-> o[i].starboard_channel_id]
          /\ source_channels' = [i \in DOMAIN o |-> o[i].source_channel_id]
    /\ tasks' = <<>> /\ reaction_processing' = <<>>
    /\ exited' = exited \cup {<<0, "restart", "init", "loaded">>}
    /\ events' = events + 1
    /\ UNCHANGED <<karma_vars, hist_vars, loop_vars, msg_vars, relayed, sb_channels,
                   karma_loaded, sb_messages, reactions, posted>>

NextRestart ==
    \/ NextConfig
    \/ Restart

SpecRestart == InitConfig /\ [][NextRestart]_vars

RoutedAs(channel) ==
    LET added == on_raw_reaction_add(channel, 1, 1, "up")
        removed == on_raw_reaction_remove(channel, 1, 1, "up")
    IN  <<IF added = <<>> THEN "none" ELSE added[1].kind,
          IF removed = <<>> THEN "none" ELSE removed[1].kind>>

\* C34: when no command is running, after any sequence of set and unset
\* commands and restarts, source_channels holds each stored source channel id
\* exactly once and nothing else, starboard_channels holds each stored target
\* channel id once per configuration that uses it, and a reaction event is
\* routed to the repost handler exactly in the stored source channels and to
\* the karma proxy exactly in the stored target channels.
ListsMatchStore ==
    tasks = <<>> =>
      \A channel \in Channels :
        /\ Occurrences(source_channels, channel) =
              Cardinality({c \in sb_channels : c.source_channel_id = channel})
        /\ Occurrences(starboard_channels, channel) =
              Cardinality({c \in sb_channels : c.starboard_channel_id = channel})
        /\ RoutedAs(channel)[1] =
              IF UsedAsSource(channel) THEN "repost"
              ELSE IF UsedAsStarboard(channel) THEN "proxy_add" ELSE "none"
        /\ RoutedAs(channel)[2] =
              IF UsedAsStarboard(channel) THEN "proxy_remove" ELSE "none"

\* a configuration was unset, the bot was restarted, and one configuration is
\* stored when the last command has returned
ListsMatchStoreWitness ==
    /\ tasks = <<>> /\ events = MaxEvents
    /\ <<0, "unset", "command", "unset">> \in exited
    /\ <<0, "restart", "init", "loaded">> \in exited
    /\ \E c \in sb_channels :
          /\ c.source_channel_id = OtherChannel
          /\ c.starboard_channel_id = StarboardChannelId
    /\ Cardinality(sb_channels) = 1
    /\ Occurrences(starboard_channels, StarboardChannelId) = 1

\* C36: every message is counted once: the rows of a message in the store and
\* in positive_cache together grow by at most one in a step, so a message held
\* in positive_cache when _sync_channel runs is not stored by the sync and
\* again by the next flush.
MessageCountedOnce ==
    [][(msg_stored' + positive_cache') - (msg_stored + positive_cache) \in {0, 1}]_vars

\* ------------------------------------------- Messages: _save_cache row by row
MaxRows == 4           \* message and deletion events in a run

KeyOf(row) == <<row.channel_id, row.user_id>>

\* the row on_message / on_message_delete builds for an event
NewRow(channel_id, user_id, at) ==
    [channel_id |-> channel_id, user_id |-> user_id, last_msg_at |-> at]

\* the count column taken after drop_duplicates
GroupSizeDeduped(rows, k) == 1

\* df.groupby([guild_id, channel_id, user_id])["user_id"].transform("size")
GroupSize(rows, k) == Cardinality({i \in DOMAIN rows : KeyOf(rows[i]) = k})

\* sort_values(..., ascending=False) and drop_duplicates(keep="first"): the
\* row kept for a key is the one with the greatest last_msg_at
Latest(rows, k) ==
    LET times == {rows[i].last_msg_at : i \in {j \in DOMAIN rows : KeyOf(rows[j]) = k}}
    IN  CHOOSE t \in times : \A u \in times : u <= t

\* descending order of (channel_id, user_id)
Before(k, j) == k[1] > j[1] \/ (k[1] = j[1] /\ k[2] > j[2])

RECURSIVE Descending(_)
Descending(ks) ==
    IF ks = {} THEN <<>>
    ELSE LET top == CHOOSE k \in ks : \A j \in ks \ {k} : Before(k, j)
         IN  <<top>> \o Descending(ks \ {top})

\* df.to_dict("records") after the grouping: one item per key
Items(rows) ==
    LET keys == Descending({KeyOf(rows[i]) : i \in DOMAIN rows})
    IN  [i \in DOMAIN keys |->
            [key |-> keys[i], count |-> GroupSize(rows, keys[i]),
             last_msg_at |-> Latest(rows, keys[i])]]

\* UserChannel.bulk_increment (sign 1) and bulk_decrement (sign -1)
bulk_change(table, item, sign) ==
    IF item.key \notin DOMAIN table
      THEN [k \in DOMAIN table \cup {item.key} |->
              IF k = item.key
                THEN [count |-> sign * item.count, last_msg_at |-> item.last_msg_at]
                ELSE table[k]]
      ELSE [table EXCEPT ![item.key] =
              [count |-> @.count + sign * item.count,
               last_msg_at |-> IF @.last_msg_at < item.last_msg_at
                                 THEN item.last_msg_at ELSE @.last_msg_at]]

RECURSIVE bulk_all(_, _, _)
bulk_all(table, items, sign) ==
    IF items = <<>> THEN table
    ELSE bulk_all(bulk_change(table, Head(items), sign), Tail(items), sign)

CallsOf(name, items) == [i \in DOMAIN items |-> <<name, items[i].key, items[i].count>>]

RowFrame ==
    UNCHANGED <<karma_vars, hist_vars, loop_vars, relayed, points_vars, sb_channels,
                source_channels, starboard_channels, karma_loaded, sb_messages,
                reaction_processing, reactions, posted, tasks, exited, lock_held,
                lock_waiters, lock_woken, mpc, cancelled, tick_queued, overlap,
                skipped, final_waited>>

\* on_message for a message in a text channel: one row more in positive_cache
OnMessageRow ==
    /\ events < MaxRows
    /\ \E channel_id \in MsgChannels : \E user_id \in Users :
          positive_rows' = Append(positive_rows, NewRow(channel_id, user_id, events + 1))
    /\ positive_cache' = positive_cache + 1
    /\ events' = events + 1
    /\ UNCHANGED <<negative_cache, user_channels, bulk_calls, msg_stored>>
    /\ RowFrame

\* on_message_delete: one row more in negative_cache
OnMessageDelete ==
    /\ events < MaxRows
    /\ \E channel_id \in MsgChannels : \E user_id \in Users :
          negative_cache' = Append(negative_cache, NewRow(channel_id, user_id, events + 1))
    /\ events' = events + 1
    /\ UNCHANGED <<positive_rows, positive_cache, user_channels, bulk_calls, msg_stored>>
    /\ RowFrame

\* _save_cache() as the bulker calls it (channel=None, sync=False): the first
\* block empties positive_cache and increments, the second empties
\* negative_cache and decrements, the third is skipped
SaveRows ==
    /\ bulk_calls' = CallsOf("bulk_increment", Items(positive_rows))
                        \o CallsOf("bulk_decrement", Items(negative_cache))
    /\ user_channels' = bulk_all(bulk_all(user_channels, Items(positive_rows), 1),
                                 Items(negative_cache), -1)
    /\ positive_rows' = <<>> /\ positive_cache' = 0
    /\ negative_cache' = <<>>
    /\ msg_stored' = msg_stored + Len(positive_rows) - Len(negative_cache)
    /\ UNCHANGED events
    /\ RowFrame

NextFlush ==
    \/ OnMessageRow
    \/ OnMessageDelete
    \/ SaveRows

SpecFlush == InitCache /\ [][NextFlush]_vars

\* the rows of a key held in a cache
Held(rows, k) ==
    Cardinality({i \in DOMAIN rows :
                   rows[i].channel_id = k[1] /\ rows[i].user_id = k[2]})

\* the counts of the calls of one name made for a key by the last flush
CountsFor(name, k) ==
    LET made == SelectSeq(bulk_calls, LAMBDA c : c[1] = name /\ c[2] = k)
    IN  [i \in DOMAIN made |-> made[i][3]]

Expected(n) == IF n > 0 THEN <<n>> ELSE <<>>

\* C35: a flush makes, for every key with N > 0 rows in positive_cache,
\* exactly one bulk_increment with count N and leaves positive_cache empty;
\* for every key with N > 0 rows in negative_cache exactly one bulk_decrement
\* with count N; and no call for a key without rows.
FlushOneCallPerKey ==
    [][SaveRows =>
         /\ positive_rows' = <<>> /\ negative_cache' = <<>>
         /\ \A k \in MsgKeys : \A n \in 0..MaxRows : \A m \in 0..MaxRows :
               (Held(positive_rows, k) = n /\ Held(negative_cache, k) = m)
               => /\ CountsFor("bulk_increment", k)' = Expected(n)
                  /\ CountsFor("bulk_decrement", k)' = Expected(m)]_vars

\* the last flush made an increment and a decrement with count 2
FlushOneCallPerKeyWitness ==
    /\ positive_rows = <<>> /\ negative_cache = <<>>
    /\ \E k \in MsgKeys : <<"bulk_increment", k, 2>> \in
                               {bulk_calls[i] : i \in DOMAIN bulk_calls}
    /\ \E k \in MsgKeys : <<"bulk_decrement", k, 2>> \in
                               {bulk_calls[i] : i \in DOMAIN bulk_calls}

\* the other guild has a configuration when the bot starts
InitForeign ==
    /\ InitKarma
    /\ sb_channels = {[guild_id |-> OtherGuild, source_channel_id |-> ForeignSource,
                       starboard_channel_id |-> ForeignStarboard, limit |-> 1]}
    /\ source_channels = <<ForeignSource>>
    /\ starboard_channels = <<ForeignStarboard>>
    /\ karma_loaded = TRUE
    /\ sb_messages = <<>> /\ reaction_processing = <<>>
    /\ reactions = [m \in {} |-> {}] /\ posted = {}
    /\ tasks = <<>> /\ events = 0 /\ exited = {}

SpecForeign == InitForeign /\ [][NextConfig]_vars

\* C37: the commands invoked in one guild leave the stored configurations of
\* every other guild, and the routing of their channels, as they were.
UnsetOwnGuildOnly ==
    [][/\ {c \in sb_channels : c.guild_id # TheGuild} =
          {c \in sb_channels' : c.guild_id # TheGuild}
       /\ InList(source_channels, ForeignSource) = InList(source_channels', ForeignSource)
       /\ InList(starboard_channels, ForeignStarboard) =
             InList(starboard_channels', ForeignStarboard)]_vars

\* a message a member wrote in the starboard channel: no row names it
LooseMessage == 200

\* InitRelay with LooseMessage in the starboard channel
InitLoose ==
    /\ InitKarma
    /\ LET l == CHOOSE n \in Limits : TRUE IN
          sb_channels = {[guild_id |-> TheGuild, source_channel_id |-> SourceChannel,
                          starboard_channel_id |-> StarboardChannelId, limit |-> l]}
    /\ source_channels = <<SourceChannel>>
    /\ starboard_channels = <<StarboardChannelId>>
    /\ karma_loaded \in BOOLEAN
    /\ reaction_processing = <<>>
    /\ \E x \in {m \in SourceMessages : ~HasSecondary(m)} :
          /\ sb_messages = AddRows(<<>>, x, <<NextCopy({})>>)
          /\ posted = {[id |-> NextCopy({}), source |-> x, kind |-> "primary"]}
          /\ reactions = [m \in {x, NextCopy({}), LooseMessage} |-> {}]
    /\ tasks = <<>> /\ events = 0 /\ exited = {}

SpecLoose == InitLoose /\ [][NextRelated]_vars

ProxyKinds == {"proxy_add", "proxy_remove"}

\* no row names the message as a copy or as a source
Unrecorded(m) ==
    ~\E i \in DOMAIN sb_messages :
        /\ sb_messages[i].guild_id = TheGuild
        /\ \/ sb_messages[i].starboard_message_id = m
           \/ sb_messages[i].source_message_id = m

\* C38: a reaction add or remove in a starboard channel on a message that no
\* row names, or while Karma is not loaded, is ignored by the proxy: its
\* handler never comes to fetch a related message, and the step in which it
\* returns changes no karma accumulator and relays nothing.
IgnoredByProxy ==
    /\ [](\A h \in DOMAIN tasks :
            (tasks[h].kind \in ProxyKinds /\ tasks[h].pc = "related")
            => (karma_loaded /\ ~Unrecorded(tasks[h].message_id)))
    /\ [][\A h \in DOMAIN tasks :
            (/\ tasks[h].kind \in ProxyKinds
             /\ Unrecorded(tasks[h].message_id) \/ ~karma_loaded
             /\ tasks' # tasks
             /\ \A o \in DOMAIN tasks \ {h} : tasks' # Dropped(tasks, o))
            => /\ tasks' = Dropped(tasks, h)
               /\ UNCHANGED <<value_cache, given_cache, taken_cache, relayed>>
               /\ \E how \in {"norow", "nokarma"} : \E m \in DOMAIN reactions :
                     exited' = exited \cup {<<m, tasks[h].kind, "listener", how>>}]_vars

\* Karma is loaded, a member reacted to LooseMessage, and the proxy handler
\* of the event has returned at the test of the rows
IgnoredByProxyWitness ==
    /\ karma_loaded /\ tasks = <<>>
    /\ reactions[LooseMessage] # {}
    /\ <<LooseMessage, "proxy_add", "listener", "norow">> \in exited

\* Karma is not loaded, a member reacted to a copy, and the proxy handler of
\* the event has returned at the test of the cog
IgnoredByProxyUnloaded ==
    /\ ~karma_loaded /\ tasks = <<>>
    /\ \E m \in DOMAIN reactions : \E x \in DOMAIN reactions :
          /\ reactions[m] # {} /\ ~Unrecorded(m)
          /\ <<x, "proxy_add", "listener", "nokarma">> \in exited

\* ------------------------------------------------------------------- Points
TIMER_MESSAGE == 60
TIMER_REACTION == 30
LIMITS_MESSAGE == <<15, 25>>
LIMITS_REACTION == <<0, 5>>

TimeStep == 30         \* seconds between two readings of the clock
MaxTicks == 2          \* clock readings after the start

\* the timer and the limits on_message / on_reaction_add pass on
Timer(kind) == IF kind = "message" THEN TIMER_MESSAGE ELSE TIMER_REACTION
LimitsOf(kind) == IF kind = "message" THEN LIMITS_MESSAGE ELSE LIMITS_REACTION

\* random.randint(a, b): the upper end stands for the draw, which plays no
\* part in the decision
Values(kind) == {LimitsOf(kind)[2]}

Stats(kind) == IF kind = "message" THEN stats_message ELSE stats_reaction

\* cleanup comparing every entry with TIMER_REACTION
CleanupTimerShort(kind) == TIMER_REACTION

\* the timer cleanup compares the entries of a dict with (lines 307, 315)
CleanupTimer(kind) == IF kind = "message" THEN TIMER_MESSAGE ELSE TIMER_REACTION

PointsFrame ==
    UNCHANGED <<karma_vars, hist_vars, star_vars, loop_vars, relayed, row_vars,
                positive_cache, msg_stored, lock_held, lock_waiters, lock_woken, mpc,
                cancelled, tick_queued, overlap, skipped, final_waited>>

\* time passes
Tick ==
    /\ clock < MaxTicks * TimeStep
    /\ clock' = clock + TimeStep
    /\ UNCHANGED <<stats_message, stats_reaction, user_stats, last_award, award_count,
                   denied>>
    /\ PointsFrame

\* UserStats.increment
increment(table, guild_id, user_id, value) ==
    LET k == <<guild_id, user_id>>
    IN  IF k \in DOMAIN table
          THEN [table EXCEPT ![k] = @ + value]
          ELSE [j \in DOMAIN table \cup {k} |-> IF j = k THEN value ELSE table[j]]

\* stats after `if guild_id not in stats: stats[guild_id] = {}`
WithGuild(stats, guild_id) ==
    IF guild_id \in DOMAIN stats THEN stats
    ELSE [g \in DOMAIN stats \cup {guild_id} |->
            IF g = guild_id THEN [u \in {} |-> 0] ELSE stats[g]]

\* stats after `stats[guild_id][user_id] = now`
Stamped(stats, guild_id, user_id, now) ==
    [stats EXCEPT ![guild_id] =
        [u \in DOMAIN @ \cup {user_id} |-> IF u = user_id THEN now ELSE @[u]]]

\* on_message / on_reaction_add of a member in a guild: _handle_points
HandlePoints(kind, guild_id, user_id, value) ==
    LET now == clock
        stats == WithGuild(Stats(kind), guild_id)
        k == <<guild_id, user_id>>
        award == \/ user_id \notin DOMAIN stats[guild_id]
                 \/ now - stats[guild_id][user_id] >= Timer(kind)
        after == IF award THEN Stamped(stats, guild_id, user_id, now) ELSE stats
    IN  /\ IF kind = "message"
             THEN stats_message' = after /\ UNCHANGED stats_reaction
             ELSE stats_reaction' = after /\ UNCHANGED stats_message
        /\ IF award
             THEN /\ user_stats' = increment(user_stats, guild_id, user_id, value)
                  /\ last_award' = [last_award EXCEPT ![kind][k] = now]
                  /\ award_count' = [award_count EXCEPT ![kind][k] = @ + 1]
                  /\ UNCHANGED denied
             ELSE /\ denied' = denied \cup {kind}
                  /\ UNCHANGED <<user_stats, last_award, award_count>>
        /\ UNCHANGED clock
        /\ PointsFrame

OnPoints ==
    \E kind \in PointKinds : \E k \in PointKeys : \E value \in Values(kind) :
        HandlePoints(kind, k[1], k[2], value)

\* one dict after the cleanup loop: the expired entries are popped
Cleaned(stats, kind) ==
    [g \in DOMAIN stats |->
        [u \in {v \in DOMAIN stats[g] : clock - stats[g][v] < CleanupTimer(kind)} |->
            stats[g][u]]]

\* one iteration of the cleanup loop
cleanup ==
    /\ stats_message' = Cleaned(stats_message, "message")
    /\ stats_reaction' = Cleaned(stats_reaction, "reaction")
    /\ UNCHANGED <<clock, user_stats, last_award, award_count, denied>>
    /\ PointsFrame

NextPoints ==
    \/ Tick
    \/ OnPoints
    \/ cleanup

SpecPoints == InitCache /\ [][NextPoints]_vars

\* C39: for each (guild, user) and each kind of event, an event is awarded
\* exactly when no award was made before or the last award is at least the
\* timer (60 seconds for messages, 30 for reactions) back, whatever the cleanup
\* has removed in between; so two awards are at least the timer apart, and an
\* event without an award changes no points.
AwardOncePerWindow ==
    [][\A kind \in PointKinds : \A k \in PointKeys : \A value \in Values(kind) :
         HandlePoints(kind, k[1], k[2], value) =>
           LET due == \/ last_award[kind][k] = -1
                      \/ clock - last_award[kind][k] >=
                           (IF kind = "message" THEN 60 ELSE 30)
           IN  IF due
                 THEN /\ award_count'[kind][k] = award_count[kind][k] + 1
                      /\ k \in DOMAIN user_stats'
                      /\ user_stats'[k] =
                            (IF k \in DOMAIN user_stats THEN user_stats[k] ELSE 0) + value
                 ELSE UNCHANGED <<award_count, user_stats>>]_vars

\* a member got two awards for reactions and one event without an award, and
\* the cleanup has removed the entry of the last award
AwardOncePerWindowWitness ==
    \E k \in PointKeys :
        /\ award_count["reaction"][k] = 2
        /\ "reaction" \in denied
        /\ k[1] \in DOMAIN stats_reaction
        /\ k[2] \notin DOMAIN stats_reaction[k[1]]

====
